---- MODULE Spec2Model ----
(***************************************************************************)
(* Model of the listing scraper of bidoptimizer:                           *)
(*   src/src/lib/property-scraper.ts  (lines 577-1418, the current copy    *)
(*                                     of the module)                      *)
(*   src/src/app/api/scrape/route.ts  (POST /api/scrape)                   *)
(*                                                                         *)
(* Strings are sequences of one-character strings, so that toLowerCase,    *)
(* includes, replace(/[^0-9.]/g,'') and parseInt are computed rather than  *)
(* assumed.  A fetched document is the list of data blocks the scraper's   *)
(* regular expressions locate in it, each with the value JSON.parse gives. *)
(***************************************************************************)
EXTENDS Integers, Sequences, FiniteSets, TLC

VARIABLES
    op,        \* the operation this behaviour runs: detect, parse, scrape, route, or a function's name
    url,       \* the URL argument (a Url record)
    body,      \* the request of POST /api/scrape
    input,     \* the argument of the function applied, when it is neither a URL nor a document;
               \* for the API-first path, the answers to its two requests
    html,      \* the document: argument of the parsers / body of the fetch response
    pc,        \* position of the call: call, fetching, reading, done
    requests,  \* number of HTTP requests issued to the listing site
    status,    \* how the fetch settled: not yet, rejected, or a response with its HTTP status
    result     \* what the operation handed to its caller

vars == <<op, url, body, input, html, pc, requests, status, result>>

-----------------------------------------------------------------------------
(* Strings                                                                 *)

UpperChars == <<"A","B","C","D","E","F","G","H","I","J","K","L","M",
                "N","O","P","Q","R","S","T","U","V","W","X","Y","Z">>
LowerChars == <<"a","b","c","d","e","f","g","h","i","j","k","l","m",
                "n","o","p","q","r","s","t","u","v","w","x","y","z">>
Digits == <<"0","1","2","3","4","5","6","7","8","9">>

ToLowerChar(c) ==
    IF \E i \in 1..26 : UpperChars[i] = c
    THEN LowerChars[CHOOSE i \in 1..26 : UpperChars[i] = c]
    ELSE c

\* String.prototype.toLowerCase
toLowerCase(str) == [i \in 1..Len(str) |-> ToLowerChar(str[i])]

\* String.prototype.includes(needle)
includes(str, needle) ==
    \E i \in 0..(Len(str) - Len(needle)) :
        \A j \in 1..Len(needle) : str[i + j] = needle[j]

IsDigit(c) == \E i \in 1..10 : Digits[i] = c
DigitVal(c) == (CHOOSE i \in 1..10 : Digits[i] = c) - 1

ZILLOW_DOMAIN == <<"z","i","l","l","o","w",".","c","o","m">>
REDFIN_DOMAIN == <<"r","e","d","f","i","n",".","c","o","m">>

S_https == <<"h","t","t","p","s",":","/","/">>
S_HTTP == <<"H","T","T","P",":","/","/">>
S_www == <<"w","w","w",".">>
S_ZillowMixed == <<"Z","i","l","l","o","w",".","C","O","M">>
S_RedfinMixed == <<"R","E","D","F","I","N",".","c","o","m">>
S_example == <<"e","x","a","m","p","l","e",".","c","o","m">>
S_notzillow == <<"n","o","t","z","i","l","l","o","w",".","c","o","m">>
S_redfinEvil == <<"r","e","d","f","i","n",".","c","o","m",".","e","v","i","l",".","o","r","g">>
S_homedetails == <<"/","h","o","m","e","d","e","t","a","i","l","s","/","1","-","E","l","m",
                   "-","S","t","/","1","2","3","4","5","_","z","p","i","d","/">>
S_home == <<"/","h","o","m","e","/","7","7">>
S_goZillow == <<"/","g","o","/","z","i","l","l","o","w",".","c","o","m">>
S_goRedfin == <<"/","g","o","/","R","e","d","f","i","n",".","c","o","m","/","x">>
S_refZillow == <<"?","r","e","f","=","Z","I","L","L","O","W",".","c","o","m">>
S_refRedfin == <<"?","r","e","f","=","r","e","d","f","i","n",".","c","o","m">>
S_utm == <<"?","u","t","m","=","1">>
S_notaurl == <<"n","o","t"," ","a"," ","u","r","l">>

-----------------------------------------------------------------------------
(* URLs: the text of a URL is scheme + sub + domain + path + query.  The    *)
(* record keeps the parts apart so that claims can speak of the host       *)
(* without re-running the classifier's own substring search.               *)

Url(scheme, sub, domain, path, query) ==
    [scheme |-> scheme, sub |-> sub, domain |-> domain, path |-> path, query |-> query]

UrlText(u) == u.scheme \o u.sub \o u.domain \o u.path \o u.query

EmptyUrl == Url(<<>>, <<>>, <<>>, <<>>, <<>>)

\* `new URL(url)` (route.ts:46) throws for a string that is no absolute URL
IsWellFormedUrl(u) == u.scheme # <<>> /\ u.domain # <<>>

\* a classifier that matches without lowering the case of the URL
detectSource_CaseSensitive(u) ==
    IF includes(UrlText(u), ZILLOW_DOMAIN) THEN "zillow"
    ELSE IF includes(UrlText(u), REDFIN_DOMAIN) THEN "redfin"
    ELSE "null"

\* src/src/lib/property-scraper.ts:595-600
detectSource(u) ==
    LET lowerUrl == toLowerCase(UrlText(u))
    IN  IF includes(lowerUrl, ZILLOW_DOMAIN) THEN "zillow"
        ELSE IF includes(lowerUrl, REDFIN_DOMAIN) THEN "redfin"
        ELSE "null"

Schemes == {S_https, S_HTTP, <<>>}
Subs == {<<>>, S_www}
ZillowDomains == {ZILLOW_DOMAIN, S_ZillowMixed}
RedfinDomains == {REDFIN_DOMAIN, S_RedfinMixed}
ZillowLookalikes == {S_notzillow}
RedfinLookalikes == {S_redfinEvil}
OtherDomains == {S_example}
Domains == ZillowDomains \cup RedfinDomains \cup ZillowLookalikes
              \cup RedfinLookalikes \cup OtherDomains
PathsNamingZillow == {S_goZillow}
PathsNamingRedfin == {S_goRedfin}
PlainPaths == {<<>>, S_homedetails, S_home}
Paths == PlainPaths \cup PathsNamingZillow \cup PathsNamingRedfin
QueriesNamingZillow == {S_refZillow}
QueriesNamingRedfin == {S_refRedfin}
PlainQueries == {<<>>, S_utm}
Queries == PlainQueries \cup QueriesNamingZillow \cup QueriesNamingRedfin

Urls ==
    {Url(sc, sb, d, p, q) : sc \in Schemes, sb \in Subs, d \in Domains,
                            p \in Paths, q \in Queries}
    \cup {EmptyUrl, Url(<<>>, <<>>, S_notaurl, <<>>, <<>>)}

\* The URL is on the site's domain: its host is the domain or a subdomain of it.
OnZillow(u) == u.domain \in ZillowDomains
OnRedfin(u) == u.domain \in RedfinDomains

\* The URL's text names the site's domain somewhere (host, lookalike host, path, query).
NamesZillow(u) ==
    \/ u.domain \in ZillowDomains \cup ZillowLookalikes
    \/ u.path \in PathsNamingZillow
    \/ u.query \in QueriesNamingZillow
NamesRedfin(u) ==
    \/ u.domain \in RedfinDomains \cup RedfinLookalikes
    \/ u.path \in PathsNamingRedfin
    \/ u.query \in QueriesNamingRedfin

-----------------------------------------------------------------------------
(* Specification SpecDetect: the source classifier applied to every URL.   *)

Unsettled == [kind |-> "none"]
NoResult == [kind |-> "none"]
NoBody == [kind |-> "none"]
NoInput == [kind |-> "none"]
NoHtml == [kind |-> "none"]

InitDetect ==
    /\ op = "detect"
    /\ url \in Urls
    /\ body = NoBody
    /\ html = NoHtml
    /\ input = NoInput
    /\ pc = "call"
    /\ requests = 0
    /\ status = Unsettled
    /\ result = NoResult

Detect ==
    /\ op = "detect" /\ pc = "call"
    /\ result' = [kind |-> "source", source |-> detectSource(url)]
    /\ pc' = "done"
    /\ UNCHANGED <<op, url, body, input, html, requests, status>>

NextDetect == Detect

SpecDetect == InitDetect /\ [][NextDetect]_vars

\* C9 (as stated): 'zillow' for every URL on zillow.com, 'redfin' for every URL
\* on redfin.com, null for every other URL, including URLs of other hosts that
\* only name one of the domains in their path or query.
C9_ClassifierByDomain ==
    (op = "detect" /\ pc = "done") =>
        result.source = (IF OnZillow(url) THEN "zillow"
                         ELSE IF OnRedfin(url) THEN "redfin" ELSE "null")

\* C9 (amended): the classifier answers 'zillow' exactly for the URLs whose text
\* names zillow.com anywhere (so for every URL on the zillow.com domain, whatever
\* the scheme, case, path, query), 'redfin' for the URLs that name redfin.com but
\* not zillow.com, and null exactly for the URLs that name neither.
C9_ClassifierBySubstring ==
    (op = "detect" /\ pc = "done") =>
        /\ (OnZillow(url) => result.source = "zillow")
        /\ (OnRedfin(url) /\ ~NamesZillow(url) => result.source = "redfin")
        /\ result.source = (IF NamesZillow(url) THEN "zillow"
                            ELSE IF NamesRedfin(url) THEN "redfin" ELSE "null")

\* A URL of another host that names zillow.com only in its query has been classified.
C9_Witness ==
    /\ op = "detect" /\ pc = "done"
    /\ url.domain = S_example /\ url.query = S_refZillow /\ url.scheme = S_https
    /\ result.source = "zillow"

-----------------------------------------------------------------------------
(* JavaScript values, as JSON.parse gives them.  A record with a field t    *)
(* is a tagged value (undefined, null, string, number, array, map); any    *)
(* other record is a plain object whose fields are its properties.  A map  *)
(* is an object the code iterates with Object.entries / Object.values, so  *)
(* its entries are kept in order.                                          *)

Undefined == [t |-> "undefined"]
Null == [t |-> "null"]
Str(s) == [t |-> "string", s |-> s]
Num(n) == [t |-> "number", n |-> n]
Arr(items) == [t |-> "array", items |-> items]
Map(entries) == [t |-> "map", entries |-> entries]
EmptyObject == [t |-> "map", entries |-> <<>>]

Tagged(x) == "t" \in DOMAIN x
\* a string whose text is valid JSON, kept with the value JSON.parse gives for it
JsonText(value) == [t |-> "json", value |-> value]
TypeOf(x) ==
    IF Tagged(x) /\ x.t \in {"undefined", "string", "number"} THEN x.t
    ELSE IF Tagged(x) /\ x.t = "json" THEN "string"
    ELSE "object"
IsNullish(x) == Tagged(x) /\ x.t \in {"undefined", "null"}
\* typeof x === 'object' && x !== null
IsObject(x) == TypeOf(x) = "object" /\ ~IsNullish(x)
IsString(x) == Tagged(x) /\ x.t = "string"

\* Boolean(x)
Truthy(x) ==
    IF ~Tagged(x) THEN TRUE
    ELSE CASE x.t = "undefined" -> FALSE
           [] x.t = "null" -> FALSE
           [] x.t = "string" -> x.s # <<>>
           [] x.t = "number" -> x.n # 0 \/ "frac" \in DOMAIN x
           [] x.t = "nan" -> FALSE
           [] x.t = "boolean" -> x.b
           [] OTHER -> TRUE

\* a || b
Or(a, b) == IF Truthy(a) THEN a ELSE b

\* x.f, for x that is neither undefined nor null (reading those throws a TypeError)
Prop(x, f) ==
    IF Tagged(x)
    THEN IF x.t = "map" /\ \E i \in 1..Len(x.entries) : x.entries[i].key = f
         THEN x.entries[CHOOSE i \in 1..Len(x.entries) : x.entries[i].key = f].value
         ELSE Undefined
    ELSE IF f \in DOMAIN x THEN x[f] ELSE Undefined

\* x?.f
OptProp(x, f) == IF IsNullish(x) THEN Undefined ELSE Prop(x, f)

\* Object.values(x)
Values(x) ==
    IF Tagged(x)
    THEN CASE x.t = "map" -> [i \in 1..Len(x.entries) |-> x.entries[i].value]
           [] x.t = "array" -> x.items
           [] OTHER -> <<>>
    ELSE <<>>

RECURSIVE NatToString(_)
NatToString(n) == IF n < 10 THEN <<Digits[n + 1]>> ELSE NatToString(n \div 10) \o <<Digits[(n % 10) + 1]>>

S_ObjectObject == <<"[","o","b","j","e","c","t"," ","O","b","j","e","c","t","]">>

\* String(x), for the values the model draws (arrays are drawn only as type tags)
JsString(x) ==
    IF ~Tagged(x) THEN S_ObjectObject
    ELSE CASE x.t = "string" -> x.s
           [] x.t = "number" -> IF x.n < 0 THEN <<"-">> \o NatToString(0 - x.n) ELSE NatToString(x.n)
           [] x.t = "map" -> S_ObjectObject
           [] OTHER -> <<>>

\* str.replace(/[^0-9.]/g, '')
RECURSIVE KeepDigitsAndDots(_)
KeepDigitsAndDots(str) ==
    IF str = <<>> THEN <<>>
    ELSE (IF IsDigit(Head(str)) \/ Head(str) = "." THEN <<Head(str)>> ELSE <<>>)
         \o KeepDigitsAndDots(Tail(str))

\* parseInt(str): the leading digits of str; -1 stands for NaN
RECURSIVE LeadingDigitsValue(_, _)
LeadingDigitsValue(str, acc) ==
    IF str = <<>> \/ ~IsDigit(Head(str)) THEN acc
    ELSE LeadingDigitsValue(Tail(str), acc * 10 + DigitVal(Head(str)))

NaN == -1
parseInt(str) ==
    IF str = <<>> \/ ~IsDigit(Head(str)) THEN NaN ELSE LeadingDigitsValue(str, 0)

\* str.replace(/[^0-9]/g, ''): a cleaning that drops the decimal point too
RECURSIVE KeepDigits(_)
KeepDigits(str) ==
    IF str = <<>> THEN <<>>
    ELSE (IF IsDigit(Head(str)) THEN <<Head(str)>> ELSE <<>>) \o KeepDigits(Tail(str))

\* a parsePrice that removes every non-digit character
parsePrice_DigitsOnly(priceStr) ==
    IF TypeOf(priceStr) = "number" THEN priceStr.n
    ELSE IF ~Truthy(priceStr) THEN 0
    ELSE IF parseInt(KeepDigits(JsString(priceStr))) = NaN THEN 0
    ELSE parseInt(KeepDigits(JsString(priceStr)))

\* src/src/lib/property-scraper.ts:605-610
parsePrice(priceStr) ==
    IF TypeOf(priceStr) = "number" THEN priceStr.n
    ELSE IF ~Truthy(priceStr) THEN 0
    ELSE LET cleaned == KeepDigitsAndDots(JsString(priceStr))
             n == parseInt(cleaned)
         IN  IF n = NaN THEN 0 ELSE n

K_single == <<"s","i","n","g","l","e">>
K_house == <<"h","o","u","s","e">>
K_detached == <<"d","e","t","a","c","h","e","d">>
K_condo == <<"c","o","n","d","o">>
K_apartment == <<"a","p","a","r","t","m","e","n","t">>
K_town == <<"t","o","w","n">>
K_row == <<"r","o","w">>
K_multi == <<"m","u","l","t","i">>
K_duplex == <<"d","u","p","l","e","x">>
K_triplex == <<"t","r","i","p","l","e","x">>

\* what a function gives when it throws (a TypeError, a SyntaxError, a URIError)
THROW == "THROW"

\* src/src/lib/property-scraper.ts:615-634; typeStr.toLowerCase is not a function
\* when typeStr is a truthy value that is not a string
normalizePropertyType(typeStr) ==
    IF ~Truthy(typeStr) THEN "other"
    ELSE IF ~IsString(typeStr) THEN THROW
    ELSE LET lower == toLowerCase(typeStr.s)
         IN  IF includes(lower, K_single) \/ includes(lower, K_house) \/ includes(lower, K_detached)
                 THEN "single-family"
             ELSE IF includes(lower, K_condo) \/ includes(lower, K_apartment) THEN "condo"
             ELSE IF includes(lower, K_town) \/ includes(lower, K_row) THEN "townhouse"
             ELSE IF includes(lower, K_multi) \/ includes(lower, K_duplex) \/ includes(lower, K_triplex)
                 THEN "multi-family"
             ELSE "other"

S_Unknown == <<"U","n","k","n","o","w","n">>
S_UnknownAddress == <<"U","n","k","n","o","w","n"," ","A","d","d","r","e","s","s">>
S_AddressFromUrl == <<"A","d","d","r","e","s","s"," ","f","r","o","m"," ","U","R","L">>
S_CommaSpace == <<","," ">>

\* what a strategy or a parser hands back: a record, null, or a thrown error
Found(rec) == [kind |-> "record", rec |-> rec]
NullResult == [kind |-> "null"]
Threw == [kind |-> "throw"]

\* The fields of ScrapedPropertyData the model follows (scraper-types.ts:8-37);
\* every strategy's object literal is built through this.
Record(address, listPrice, propertyType) ==
    [address |-> address, listPrice |-> listPrice, propertyType |-> propertyType]

\* an object literal one of whose field expressions may have thrown
Literal(address, listPrice, propertyType) ==
    IF propertyType = THROW THEN Threw
    ELSE Found(Record(address, listPrice, propertyType))

\* src/src/lib/property-scraper.ts:648-669
completePropertyData(partial, source, u) ==
    [address |-> Or(partial.address, Str(S_UnknownAddress)),
     listPrice |-> IF partial.listPrice # 0 THEN partial.listPrice ELSE 0,
     propertyType |-> partial.propertyType,
     source |-> source,
     sourceUrl |-> u]

\* a record literal copied from Site A's strategy without changing the site
Stamped_SiteA(rec, source, u) ==
    [address |-> rec.address, listPrice |-> rec.listPrice,
     propertyType |-> rec.propertyType, source |-> "zillow", sourceUrl |-> u]

\* a strategy that builds the full record itself stamps source and sourceUrl inline
Stamped(rec, source, u) ==
    [address |-> rec.address, listPrice |-> rec.listPrice,
     propertyType |-> rec.propertyType, source |-> source, sourceUrl |-> u]

\* src/src/lib/property-scraper.ts:674-677
hasRequiredData(partial) == Truthy(partial.address) \/ partial.listPrice # 0

-----------------------------------------------------------------------------
(* Documents.  A document is what the parser's regular expressions locate  *)
(* in the html: for each data block either Absent (the expression does not *)
(* match), Malformed (it matches, JSON.parse or decodeURIComponent throws) *)
(* or the parsed value; and for the markup patterns the captured text.     *)

Absent == [t |-> "absent"]
Malformed == [t |-> "malformed"]
NoMatch == [t |-> "nomatch"]

\* what a strategy gives when the cascade goes on to the next one
Pass == [kind |-> "next"]

\* try { ... } catch { return null }
Catch(r) == IF r = Threw THEN NullResult ELSE r

\* [..].join(', '): a join that keeps the absent components
RECURSIVE JoinAll(_)
JoinAll(comps) ==
    IF comps = <<>> THEN <<>>
    ELSE IF Len(comps) = 1 THEN JsString(Head(comps))
    ELSE JsString(Head(comps)) \o S_CommaSpace \o JoinAll(Tail(comps))

\* [..].filter(Boolean).join(', ')
RECURSIVE JoinTruthy(_)
JoinTruthy(comps) ==
    IF comps = <<>> THEN <<>>
    ELSE IF ~Truthy(Head(comps)) THEN JoinTruthy(Tail(comps))
    ELSE LET rest == JoinTruthy(Tail(comps))
         IN  IF rest = <<>> THEN JsString(Head(comps))
             ELSE JsString(Head(comps)) \o S_CommaSpace \o rest

S_Product == <<"P","r","o","d","u","c","t">>
S_SingleFamilyResidence == <<"S","i","n","g","l","e","F","a","m","i","l","y","R","e","s","i","d","e","n","c","e">>
S_RealEstateListing == <<"R","e","a","l","E","s","t","a","t","e","L","i","s","t","i","n","g">>
S_Residence == <<"R","e","s","i","d","e","n","c","e">>
K_Property == <<"P","r","o","p","e","r","t","y">>

\* src/src/lib/property-scraper.ts:797-824 (the field '@type' is written type)
parseZillowJsonLd(data, u) ==
    LET address == Or(Prop(data, "address"), EmptyObject)
        fullAddress == JoinTruthy(<<Prop(address, "streetAddress"), Prop(address, "addressLocality"),
                                    Prop(address, "addressRegion"), Prop(address, "postalCode")>>)
        r == Literal(Or(Str(fullAddress), Str(S_UnknownAddress)),
                     parsePrice(Or(OptProp(Prop(data, "offers"), "price"), Prop(data, "price"))),
                     normalizePropertyType(Prop(data, "type")))
    IN  IF r = Threw THEN NullResult ELSE Found(Stamped(r.rec, "zillow", u))

\* src/src/lib/property-scraper.ts:826-855
extractZillowFromNextData(data) ==
    IF IsNullish(data) THEN NullResult
    ELSE LET props == Prop(data, "props")
             pageProps == OptProp(props, "pageProps")
             initialData == OptProp(pageProps, "initialData")
             property == Or(OptProp(pageProps, "property"), OptProp(initialData, "property"))
         IN  IF ~Truthy(property) THEN NullResult
             ELSE Catch(Literal(
                     Or(Or(Prop(property, "streetAddress"), Prop(property, "address")), Str(S_Unknown)),
                     parsePrice(Or(Prop(property, "price"), Prop(property, "listPrice"))),
                     normalizePropertyType(Or(Prop(property, "homeType"), Prop(property, "propertyType")))))

\* src/src/lib/property-scraper.ts:979-1026; no try of its own
extractPropertyFields(property) ==
    LET addressObj == Prop(property, "address")
        address ==
            IF Truthy(addressObj) /\ TypeOf(addressObj) = "object"
            THEN Or(Str(JoinTruthy(<<Prop(addressObj, "streetAddress"), Prop(addressObj, "city"),
                                     Prop(addressObj, "state"), Prop(addressObj, "zipcode")>>)),
                    Str(S_Unknown))
            ELSE IF Truthy(Prop(property, "streetAddress")) THEN Prop(property, "streetAddress")
            ELSE IF Truthy(Prop(property, "fullAddress")) THEN Prop(property, "fullAddress")
            ELSE Str(S_Unknown)
        priceObj == Prop(property, "priceHistory")
        fromHistory == Tagged(priceObj) /\ priceObj.t = "array" /\ Len(priceObj.items) > 0
        priceThrows ==
            /\ ~Truthy(Prop(property, "price")) /\ ~Truthy(Prop(property, "listPrice"))
            /\ fromHistory /\ IsNullish(priceObj.items[1])
        price ==
            IF Truthy(Prop(property, "price")) THEN parsePrice(Prop(property, "price"))
            ELSE IF Truthy(Prop(property, "listPrice")) THEN parsePrice(Prop(property, "listPrice"))
            ELSE IF fromHistory /\ ~priceThrows THEN parsePrice(Prop(priceObj.items[1], "price"))
            ELSE 0
    IN  IF priceThrows THEN Threw
        ELSE Literal(address, price,
                     normalizePropertyType(Or(Or(Prop(property, "homeType"), Prop(property, "propertyType")),
                                              Prop(property, "homeStatus"))))

\* the first value of Object.values(cache) that looks like a property (lines 897-904)
RECURSIVE FirstCacheProperty(_)
FirstCacheProperty(values) ==
    IF values = <<>> THEN Undefined
    ELSE IF IsObject(Head(values))
            /\ \/ Truthy(Prop(Head(values), "streetAddress"))
               \/ Truthy(Prop(Head(values), "price"))
               \/ Truthy(Prop(Head(values), "zpid"))
         THEN Head(values)
         ELSE FirstCacheProperty(Tail(values))

\* src/src/lib/property-scraper.ts:885-913
extractZillowFromPreloadedState(data) ==
    IF IsNullish(data) THEN NullResult
    ELSE LET gdp == Prop(data, "gdp")
             building == OptProp(gdp, "building")
             property == Or(Or(building, OptProp(gdp, "property")), Prop(data, "property"))
             cache == Prop(data, "cache")
             hit == FirstCacheProperty(Values(cache))
         IN  IF ~Truthy(property)
             THEN IF Truthy(cache) /\ hit # Undefined THEN Catch(extractPropertyFields(hit))
                  ELSE NullResult
             ELSE Catch(extractPropertyFields(property))

\* the first value of Object.values(x) that is an object with a truthy .property
RECURSIVE FirstWithProperty(_)
FirstWithProperty(values) ==
    IF values = <<>> THEN Undefined
    ELSE IF IsObject(Head(values)) /\ Truthy(Prop(Head(values), "property"))
         THEN Prop(Head(values), "property")
         ELSE FirstWithProperty(Tail(values))

\* src/src/lib/property-scraper.ts:915-946; the inner try (920-933) swallows what
\* extractPropertyFields throws and the direct access is tried next
extractZillowFromSharedData(data) ==
    IF IsNullish(data) THEN NullResult
    ELSE LET apiCache == Prop(data, "apiCache")
             cacheData == IF Tagged(apiCache) /\ apiCache.t = "json" THEN apiCache.value ELSE Malformed
             hit == IF Truthy(apiCache) /\ cacheData # Malformed
                    THEN FirstWithProperty(Values(cacheData)) ELSE Undefined
             fromCache == IF hit # Undefined THEN extractPropertyFields(hit) ELSE Threw
             property == Prop(data, "property")
         IN  IF fromCache # Threw THEN fromCache
             ELSE IF Truthy(property) THEN Catch(extractPropertyFields(property))
             ELSE NullResult

\* src/src/lib/property-scraper.ts:857-883
RECURSIVE ApolloLoop(_)
ApolloLoop(entries) ==
    IF entries = <<>> THEN NullResult
    ELSE LET key == Head(entries).key
             prop == Head(entries).value
         IN  IF includes(key, K_Property) /\ IsObject(prop)
                /\ (Truthy(Prop(prop, "streetAddress")) \/ Truthy(Prop(prop, "price")))
             THEN Literal(Or(Prop(prop, "streetAddress"), Str(S_Unknown)),
                          parsePrice(Prop(prop, "price")),
                          normalizePropertyType(Prop(prop, "homeType")))
             ELSE ApolloLoop(Tail(entries))

extractZillowFromApollo(data) ==
    IF Tagged(data) /\ data.t = "map" THEN Catch(ApolloLoop(data.entries)) ELSE NullResult

\* src/src/lib/property-scraper.ts:948-974; for a string value the inner try
\* (953-961) swallows every error and the loop goes on
RECURSIVE GdpLoop(_)
GdpLoop(values) ==
    IF values = <<>> THEN NullResult
    ELSE LET value == Head(values)
             parsed == IF Tagged(value) /\ value.t = "json" THEN value.value ELSE Malformed
             inner == IF parsed = Malformed \/ IsNullish(parsed) THEN Threw
                      ELSE IF Truthy(Prop(parsed, "property"))
                           THEN extractPropertyFields(Prop(parsed, "property"))
                           ELSE Pass
         IN  IF TypeOf(value) = "string"
             THEN IF inner.kind = "record" THEN inner ELSE GdpLoop(Tail(values))
             ELSE IF IsObject(value) /\ Truthy(Prop(value, "property"))
                  THEN extractPropertyFields(Prop(value, "property"))
                  ELSE GdpLoop(Tail(values))

extractZillowFromGdpCache(data) == Catch(GdpLoop(Values(data)))

\* src/src/lib/property-scraper.ts:1028-1047
parseZillowInlineData(data, u) ==
    LET r == Literal(Or(Or(Prop(data, "streetAddress"), Prop(data, "address")), Str(S_Unknown)),
                     parsePrice(Or(Prop(data, "price"), Prop(data, "listPrice"))),
                     normalizePropertyType(Prop(data, "homeType")))
    IN  IF r = Threw THEN NullResult ELSE Found(Stamped(r.rec, "zillow", u))

-----------------------------------------------------------------------------
(* The regex fallback of Site A and the cascade of Site A.                *)

\* String.prototype.trim (blanks only: the captured texts hold no other white space)
RECURSIVE TrimLeft(_)
TrimLeft(str) == IF str # <<>> /\ Head(str) = " " THEN TrimLeft(Tail(str)) ELSE str
RECURSIVE TrimRight(_)
TrimRight(str) ==
    IF str # <<>> /\ str[Len(str)] = " " THEN TrimRight(SubSeq(str, 1, Len(str) - 1)) ELSE str
trim(str) == TrimRight(TrimLeft(str))

\* str.split(sep)[0], for a one-character separator
RECURSIVE SplitFirst(_, _)
SplitFirst(str, sep) ==
    IF str = <<>> \/ Head(str) = sep THEN <<>>
    ELSE <<Head(str)>> \o SplitFirst(Tail(str), sep)

\* src/src/lib/property-scraper.ts:1064
MIN_PLAUSIBLE_PRICE == 10000
\* src/src/lib/property-scraper.ts:1080
MIN_ADDRESS_LENGTH == 5

\* src/src/lib/property-scraper.ts:1052-1066; matches[i] is match[1] of pricePatterns[i]
RECURSIVE PriceLoop(_, _)
PriceLoop(matches, price) ==
    IF matches = <<>> THEN price
    ELSE IF Head(matches) = NoMatch THEN PriceLoop(Tail(matches), price)
    ELSE LET p == parsePrice(Head(matches))
         IN  IF p > MIN_PLAUSIBLE_PRICE THEN p ELSE PriceLoop(Tail(matches), p)

\* src/src/lib/property-scraper.ts:1069-1084; matches[i] is match[1] of addressPatterns[i]
RECURSIVE AddressLoop(_)
AddressLoop(matches) ==
    IF matches = <<>> THEN <<>>
    ELSE IF Head(matches) # NoMatch /\ Len(trim(Head(matches).s)) > MIN_ADDRESS_LENGTH
         THEN trim(SplitFirst(SplitFirst(trim(Head(matches).s), "|"), "-"))
         ELSE AddressLoop(Tail(matches))

\* src/src/lib/property-scraper.ts:1049-1168
parseZillowFromHtml(markup, u) ==
    LET price == PriceLoop(markup.price, 0)
        address == AddressLoop(markup.address)
    IN  IF price = 0 /\ address = <<>> THEN NullResult
        ELSE Found(Stamped(Record(Or(Str(address), Str(S_AddressFromUrl)), price, "other"),
                           "zillow", u))

ZillowJsonLdTypes == {S_SingleFamilyResidence, S_Product, S_RealEstateListing}

\* Strategy 1, src/src/lib/property-scraper.ts:689-702: JSON.parse throwing and
\* data['@type'] of null throwing are caught per script and the loop goes on
RECURSIVE ZillowJsonLdLoop(_, _)
ZillowJsonLdLoop(scripts, u) ==
    IF scripts = <<>> THEN Pass
    ELSE LET data == Head(scripts)
         IN  IF data = Malformed \/ IsNullish(data) THEN ZillowJsonLdLoop(Tail(scripts), u)
             ELSE IF IsString(Prop(data, "type")) /\ Prop(data, "type").s \in ZillowJsonLdTypes
                  THEN parseZillowJsonLd(data, u)
                  ELSE ZillowJsonLdLoop(Tail(scripts), u)

\* Strategies 2-6 (lines 704-775): if (propertyData && hasRequiredData(propertyData))
\*     return completePropertyData(propertyData, 'zillow', url)
Gated(propertyData, source, u) ==
    IF propertyData.kind = "record" /\ hasRequiredData(propertyData.rec)
    THEN Found(completePropertyData(propertyData.rec, source, u))
    ELSE Pass

Located(block) == block # Absent /\ block # Malformed

\* The strategies of parseZillowHtml in source order; each gives Found, NullResult
\* (the parser returns null) or Pass (the next strategy runs).
ZillowStrategy(k, doc, u) ==
    CASE k = 1 -> ZillowJsonLdLoop(doc.ld, u)
      [] k = 2 -> IF Located(doc.next) THEN Gated(extractZillowFromNextData(doc.next), "zillow", u) ELSE Pass
      [] k = 3 -> IF Located(doc.preloaded)
                  THEN Gated(extractZillowFromPreloadedState(doc.preloaded), "zillow", u) ELSE Pass
      [] k = 4 -> IF Located(doc.shared)
                  THEN Gated(extractZillowFromSharedData(doc.shared), "zillow", u) ELSE Pass
      [] k = 5 -> IF Located(doc.apollo) THEN Gated(extractZillowFromApollo(doc.apollo), "zillow", u) ELSE Pass
      [] k = 6 -> IF Located(doc.gdp) THEN Gated(extractZillowFromGdpCache(doc.gdp), "zillow", u) ELSE Pass
      [] k = 7 -> IF Located(doc.inline) THEN parseZillowInlineData(doc.inline, u) ELSE Pass
      [] k = 8 -> parseZillowFromHtml(doc.markup, u)

\* number of strategies of parseZillowHtml (lines 688-789)
ZILLOW_STRATEGIES == 8

\* Runs strategies k, k+1, ... until one returns; by is the strategy that returned.
RECURSIVE ZillowCascade(_, _, _)
ZillowCascade(k, doc, u) ==
    LET r == ZillowStrategy(k, doc, u)
    IN  IF r = Pass /\ k < ZILLOW_STRATEGIES THEN ZillowCascade(k + 1, doc, u)
        ELSE [out |-> r, by |-> k]

\* src/src/lib/property-scraper.ts:686-795; the outer catch (791-794) returns null
parseZillowHtml(doc, u) ==
    LET c == ZillowCascade(1, doc, u)
    IN  IF c.out = Threw THEN [out |-> NullResult, by |-> c.by] ELSE c

-----------------------------------------------------------------------------
(* Site B.                                                                 *)

\* src/src/lib/property-scraper.ts:1237-1266 (floorSize, rooms: not followed)
parseRedfinJsonLd(data, u) ==
    LET address == Or(Prop(data, "address"), EmptyObject)
        fullAddress == JoinTruthy(<<Prop(address, "streetAddress"), Prop(address, "addressLocality"),
                                    Prop(address, "addressRegion"), Prop(address, "postalCode")>>)
        r == Literal(Or(Str(fullAddress), Str(S_UnknownAddress)),
                     parsePrice(Or(OptProp(Prop(data, "offers"), "price"), Prop(data, "price"))),
                     normalizePropertyType(Or(Prop(data, "type"), Prop(data, "propertyType"))))
    IN  IF r = Threw THEN NullResult ELSE Found(Stamped(r.rec, "redfin", u))

\* item['@type']?.includes('Residence') || item['@type'] === 'Product' (line 1192):
\* "yes", "no", or THROW when the tag is a number or an object (no includes method)
RedfinItemMatches(item) ==
    LET tag == Prop(item, "type")
    IN  IF IsNullish(item) THEN THROW
        ELSE IF IsNullish(tag) THEN "no"
        ELSE IF IsString(tag)
             THEN IF includes(tag.s, S_Residence) \/ tag.s = S_Product THEN "yes" ELSE "no"
        ELSE IF Tagged(tag) /\ tag.t = "array"
             THEN IF \E i \in 1..Len(tag.items) : tag.items[i] = Str(S_Residence) THEN "yes" ELSE "no"
        ELSE THROW

\* src/src/lib/property-scraper.ts:1190-1196
RECURSIVE RedfinItemLoop(_, _)
RedfinItemLoop(items, u) ==
    IF items = <<>> THEN Pass
    ELSE LET m == RedfinItemMatches(Head(items))
         IN  IF m = THROW THEN Threw
             ELSE IF m = "yes" THEN parseRedfinJsonLd(Head(items), u)
             ELSE RedfinItemLoop(Tail(items), u)

RedfinJsonLdTypes == {S_SingleFamilyResidence, S_Product, S_Residence}

\* Strategy 1, src/src/lib/property-scraper.ts:1180-1201: whatever is thrown while a
\* script is examined is caught (1197) and the next script is examined
RECURSIVE RedfinJsonLdLoop(_, _)
RedfinJsonLdLoop(scripts, u) ==
    IF scripts = <<>> THEN Pass
    ELSE LET data == Head(scripts)
             inArray == IF Tagged(data) /\ data.t = "array" THEN RedfinItemLoop(data.items, u) ELSE Pass
         IN  IF data = Malformed \/ IsNullish(data) THEN RedfinJsonLdLoop(Tail(scripts), u)
             ELSE IF IsString(Prop(data, "type")) /\ Prop(data, "type").s \in RedfinJsonLdTypes
                  THEN parseRedfinJsonLd(data, u)
             ELSE IF inArray = Pass \/ inArray = Threw THEN RedfinJsonLdLoop(Tail(scripts), u)
             ELSE inArray

\* findProperty, src/src/lib/property-scraper.ts:1271-1282: depth-first, no depth limit
RECURSIVE findProperty(_)
RECURSIVE FindInValues(_)
FindInValues(values) ==
    IF values = <<>> THEN Null
    ELSE LET found == IF IsObject(Head(values)) THEN findProperty(Head(values)) ELSE Null
         IN  IF found # Null THEN found ELSE FindInValues(Tail(values))
findProperty(obj) ==
    IF Truthy(Prop(obj, "propertyId")) \/ Truthy(Prop(obj, "listingId"))
       \/ Truthy(Prop(obj, "streetAddress"))
    THEN obj
    ELSE FindInValues(Values(obj))

\* src/src/lib/property-scraper.ts:1268-1306
extractRedfinFromServerState(data) ==
    LET property == findProperty(data)
        priceInfo == Prop(property, "priceInfo")
    IN  IF property = Null THEN NullResult
        ELSE Catch(Literal(
                Or(Or(Or(Prop(property, "streetAddress"), Prop(property, "address")),
                      Prop(property, "fullAddress")), Str(S_Unknown)),
                parsePrice(Or(Or(Prop(property, "price"), Prop(property, "listPrice")),
                              OptProp(priceInfo, "amount"))),
                normalizePropertyType(Or(Prop(property, "propertyType"), Prop(property, "homeType")))))

\* src/src/lib/property-scraper.ts:1308-1327
parseRedfinInlineData(data, u) ==
    LET r == Literal(Or(Or(Or(Prop(data, "streetAddress"), Prop(data, "address")),
                           Prop(data, "fullAddress")), Str(S_Unknown)),
                     parsePrice(Or(Prop(data, "price"), Prop(data, "listPrice"))),
                     normalizePropertyType(Prop(data, "propertyType")))
    IN  IF r = Threw THEN NullResult ELSE Found(Stamped(r.rec, "redfin", u))

\* src/src/lib/property-scraper.ts:1329-1369; markup.dollar is match[0] of
\* /\$[\d,]+(?:\.\d{2})?/ and markup.title is match[1] of /<title[^>]*>([^<]+)</i
parseRedfinFromHtml(markup, u) ==
    LET price == IF markup.dollar = NoMatch THEN 0 ELSE parsePrice(markup.dollar)
        addressFromTitle ==
            IF markup.title = NoMatch THEN <<>>
            ELSE trim(SplitFirst(SplitFirst(markup.title.s, "|"), "-"))
    IN  IF price = 0 /\ addressFromTitle = <<>> THEN NullResult
        ELSE Found(Stamped(Record(Or(Str(addressFromTitle), Str(S_AddressFromUrl)), price, "other"),
                           "redfin", u))

\* The strategies of parseRedfinHtml in source order (lines 1179-1229).
RedfinStrategy(k, doc, u) ==
    CASE k = 1 -> RedfinJsonLdLoop(doc.ld, u)
      [] k = 2 -> IF Located(doc.server)
                  THEN Gated(extractRedfinFromServerState(doc.server), "redfin", u) ELSE Pass
      [] k = 3 -> IF Located(doc.inline) THEN parseRedfinInlineData(doc.inline, u) ELSE Pass
      [] k = 4 -> parseRedfinFromHtml(doc.markup, u)

\* number of strategies of parseRedfinHtml (lines 1179-1229)
REDFIN_STRATEGIES == 4

RECURSIVE RedfinCascade(_, _, _)
RedfinCascade(k, doc, u) ==
    LET r == RedfinStrategy(k, doc, u)
    IN  IF r = Pass /\ k < REDFIN_STRATEGIES THEN RedfinCascade(k + 1, doc, u)
        ELSE [out |-> r, by |-> k]

\* src/src/lib/property-scraper.ts:1177-1235
parseRedfinHtml(doc, u) ==
    LET c == RedfinCascade(1, doc, u)
    IN  IF c.out = Threw THEN [out |-> NullResult, by |-> c.by] ELSE c

-----------------------------------------------------------------------------
(* The documents the parsers are run on.                                   *)

S_ElmSt == <<"1"," ","E","l","m"," ","S","t">>
S_Boston == <<"B","o","s","t","o","n">>
S_ElmBoston == <<"1"," ","E","l","m"," ","S","t",","," ","B","o","s","t","o","n">>
S_OakAve == <<"2","2"," ","O","a","k"," ","A","v","e">>
S_500000 == <<"5","0","0","0","0","0">>
S_Dollar450 == <<"$","4","5","0",",","0","0","0">>
S_Organization == <<"O","r","g","a","n","i","z","a","t","i","o","n">>
S_PropertyKey == <<"F","o","r","S","a","l","e","P","r","o","p","e","r","t","y",":","1">>
S_RootQuery == <<"R","O","O","T","_","Q","U","E","R","Y">>
S_TitleElm == <<"1"," ","E","l","m"," ","S","t",","," ","B","o","s","t","o","n"," ">>
S_TitleOak == <<"2","2"," ","O","a","k"," ","A","v","e"," ","-"," ","R","e","d","f","i","n">>
S_TitleHome == <<"H","o","m","e">>
S_TitleDenied == <<"A","c","c","e","s","s"," ","D","e","n","i","e","d">>
S_Price9500 == <<"9",",","5","0","0">>
S_Price725 == <<"7","2","5",",","0","0","0">>
S_Dollar725 == <<"$","7","2","5",",","0","0","0",".","0","0">>

\* property objects as the sites embed them
P_full == [streetAddress |-> Str(S_ElmSt), price |-> Num(500000)]
P_none == [zpid |-> Num(12345)]
P_badType == [streetAddress |-> Str(S_OakAve), homeType |-> Num(5), propertyType |-> Num(5)]
P_priceStr == [listPrice |-> Str(S_Dollar450)]
Props == {P_full, P_none, P_badType, P_priceStr}

\* linked-data scripts
LdListing ==
    [type |-> Str(S_SingleFamilyResidence),
     address |-> [streetAddress |-> Str(S_ElmSt), addressLocality |-> Str(S_Boston)],
     offers |-> [price |-> Str(S_500000)]]
LdEmptyProduct == [type |-> Str(S_Product)]
LdOrganization == [type |-> Str(S_Organization)]
LdResidence == [type |-> Str(S_Residence), address |-> [streetAddress |-> Str(S_OakAve)],
                price |-> Num(450000)]
LdTagList == [type |-> Arr(<<Str(S_Residence)>>), address |-> [streetAddress |-> Str(S_ElmSt)]]
LdTagNumber == [type |-> Num(5)]

ZillowLdScripts == {Malformed, Null, LdListing, LdEmptyProduct, LdOrganization}
RedfinLdScripts ==
    {Malformed, LdResidence, LdEmptyProduct,
     Arr(<<LdTagList>>), Arr(<<LdTagNumber, LdResidence>>), Arr(<<LdOrganization, LdListing>>)}

\* at most MaxScripts linked-data scripts in a document
MaxScripts == 2
SeqsUpTo(S, n) == UNION {[1..k -> S] : k \in 0..n}

NextPage(P) == [props |-> [pageProps |-> [property |-> P]]]
Entry(k, v) == [key |-> k, value |-> v]

\* what each data block of a Site A page may hold when its expression matches
ZillowBlockOptions(slot) ==
    CASE slot = "next" ->
            {Malformed, Null, [props |-> [pageProps |-> [initialData |-> [property |-> P_full]]]]}
            \cup {NextPage(P) : P \in Props}
      [] slot = "preloaded" ->
            {Malformed, [gdp |-> [property |-> P_full]], [property |-> P_badType],
             [cache |-> Map(<<Entry("a", Num(1)), Entry("b", P_none)>>)]}
      [] slot = "shared" ->
            {Malformed,
             [apiCache |-> JsonText(Map(<<Entry("q", [property |-> P_badType])>>)), property |-> P_full],
             [apiCache |-> Str(S_ElmSt), property |-> P_priceStr]}
      [] slot = "apollo" ->
            {Malformed,
             Map(<<Entry(S_RootQuery, P_full), Entry(S_PropertyKey, P_priceStr)>>),
             Map(<<Entry(S_PropertyKey, P_badType)>>)}
      [] slot = "gdp" ->
            {Malformed,
             Map(<<Entry("h1", JsonText([property |-> P_badType])), Entry("h2", [property |-> P_full])>>),
             Map(<<Entry("h1", Str(S_ElmSt)), Entry("h2", JsonText([property |-> P_none]))>>)}
      [] slot = "inline" -> {Malformed} \cup Props

\* one block that yields a record and one that does not, for documents with two blocks
ZillowBlockCore(slot) ==
    CASE slot = "next" -> {NextPage(P_priceStr), NextPage(P_badType)}
      [] slot = "preloaded" -> {[gdp |-> [property |-> P_full]], [property |-> P_badType]}
      [] slot = "shared" -> {Malformed, [apiCache |-> Str(S_ElmSt), property |-> P_priceStr]}
      [] slot = "apollo" -> {Map(<<Entry(S_PropertyKey, P_badType)>>),
                             Map(<<Entry(S_RootQuery, P_full), Entry(S_PropertyKey, P_priceStr)>>)}
      [] slot = "gdp" -> {Malformed, Map(<<Entry("h1", Str(S_ElmSt)), Entry("h2", JsonText([property |-> P_none]))>>)}
      [] slot = "inline" -> {P_full, P_badType}

ZillowSlots == <<"next", "preloaded", "shared", "apollo", "gdp", "inline">>
NoBlocks == [next |-> Absent, preloaded |-> Absent, shared |-> Absent,
             apollo |-> Absent, gdp |-> Absent, inline |-> Absent]

\* the data blocks of a Site A page: none, any one, or two of the core ones
ZillowBlocks ==
    {NoBlocks}
    \cup UNION {{[NoBlocks EXCEPT ![ZillowSlots[i]] = v] : v \in ZillowBlockOptions(ZillowSlots[i])} :
                i \in 1..6}
    \cup UNION {UNION {{[NoBlocks EXCEPT ![ZillowSlots[i]] = v, ![ZillowSlots[j]] = w] :
                          v \in ZillowBlockCore(ZillowSlots[i]), w \in ZillowBlockCore(ZillowSlots[j])} :
                       j \in (i + 1)..6} : i \in 1..6}

NoPrice == <<NoMatch, NoMatch, NoMatch, NoMatch, NoMatch>>
NoAddress == <<NoMatch, NoMatch, NoMatch, NoMatch, NoMatch, NoMatch>>
ZillowPriceMatches ==
    {NoPrice,
     [NoPrice EXCEPT ![3] = Str(S_Price725)],
     [NoPrice EXCEPT ![1] = Str(S_Price9500), ![4] = Str(S_Price725)]}
ZillowAddressMatches ==
    {NoAddress,
     [NoAddress EXCEPT ![1] = Str(S_TitleElm)],
     [NoAddress EXCEPT ![1] = Str(S_TitleHome), ![4] = Str(S_OakAve)]}
ZillowMarkups == {[price |-> p, address |-> a] : p \in ZillowPriceMatches, a \in ZillowAddressMatches}

ZillowDoc(ld, blocks, markup) ==
    [kind |-> "html", ld |-> ld, next |-> blocks.next, preloaded |-> blocks.preloaded,
     shared |-> blocks.shared, apollo |-> blocks.apollo, gdp |-> blocks.gdp,
     inline |-> blocks.inline, markup |-> markup]

ZillowDocs ==
    {ZillowDoc(ld, b, m) : ld \in SeqsUpTo(ZillowLdScripts, MaxScripts),
                           b \in ZillowBlocks, m \in ZillowMarkups}


\* Site B: the server-state payload is a tree of objects that findProperty walks
ServerStateFull ==
    Map(<<Entry("version", Num(3)),
          Entry("payload", Map(<<Entry("meta", Map(<<Entry("page", Num(1))>>)),
                                 Entry("home", Map(<<Entry("propertyId", Num(77)),
                                                     Entry("streetAddress", Str(S_ElmSt)),
                                                     Entry("priceInfo", [amount |-> Num(500000)])>>))>>))>>)
ServerStateBare == Map(<<Entry("payload", Map(<<Entry("listingId", Num(9))>>))>>)
ServerStateBadType ==
    Map(<<Entry("propertyId", Num(77)), Entry("address", Str(S_OakAve)), Entry("propertyType", Num(5))>>)
ServerStateNoProperty == Map(<<Entry("payload", Map(<<Entry("page", Num(1))>>))>>)

RedfinServerStates ==
    {Absent, Malformed, ServerStateFull, ServerStateBare, ServerStateBadType, ServerStateNoProperty}
RedfinInlines == {Absent, Malformed} \cup Props
RedfinMarkups ==
    {[dollar |-> d, title |-> ti] : d \in {NoMatch, Str(S_Dollar725)},
                                    ti \in {NoMatch, Str(S_TitleOak), Str(<<"-"," ","R","e","d","f","i","n">>)}}

RedfinDoc(ld, server, inline, markup) ==
    [kind |-> "html", ld |-> ld, server |-> server, inline |-> inline, markup |-> markup]

RedfinDocs ==
    {RedfinDoc(ld, s, i, m) : ld \in SeqsUpTo(RedfinLdScripts, MaxScripts),
                              s \in RedfinServerStates, i \in RedfinInlines, m \in RedfinMarkups}

ZillowUrl == Url(S_https, S_www, ZILLOW_DOMAIN, S_homedetails, <<>>)
RedfinUrl == Url(S_https, S_www, REDFIN_DOMAIN, S_home, <<>>)

-----------------------------------------------------------------------------
(* Specification SpecParse: each parser applied to every document.         *)

InitParse ==
    /\ op = "parse"
    /\ url \in {ZillowUrl, RedfinUrl}
    /\ html \in (IF url = ZillowUrl THEN ZillowDocs ELSE RedfinDocs)
    /\ body = NoBody
    /\ input = NoInput
    /\ pc = "call"
    /\ requests = 0
    /\ status = Unsettled
    /\ result = NoResult

Parsed(c) == [kind |-> "parsed", out |-> c.out, by |-> c.by]

ParseZillow ==
    /\ op = "parse" /\ pc = "call" /\ url = ZillowUrl
    /\ result' = Parsed(parseZillowHtml(html, url))
    /\ pc' = "done"
    /\ UNCHANGED <<op, url, body, input, html, requests, status>>

ParseRedfin ==
    /\ op = "parse" /\ pc = "call" /\ url = RedfinUrl
    /\ result' = Parsed(parseRedfinHtml(html, url))
    /\ pc' = "done"
    /\ UNCHANGED <<op, url, body, input, html, requests, status>>

NextParse == ParseZillow \/ ParseRedfin

SpecParse == InitParse /\ [][NextParse]_vars


\* The minimum-viable-data gate as the specification states it: the address is
\* non-empty and not a sentinel, or the price is positive.
IsSentinelAddress(a) == ~Truthy(a) \/ a = Str(S_Unknown) \/ a = Str(S_UnknownAddress)
PassesGate(rec) == ~IsSentinelAddress(rec.address) \/ rec.listPrice > 0

Strategies(u) == IF u = ZillowUrl THEN 1..ZILLOW_STRATEGIES ELSE 1..REDFIN_STRATEGIES
StrategyOutput(k, doc, u) ==
    IF u = ZillowUrl THEN ZillowStrategy(k, doc, u) ELSE RedfinStrategy(k, doc, u)
\* the strategies whose output for the document passes the gate
PassingStrategies(doc, u) ==
    {k \in Strategies(u) : /\ StrategyOutput(k, doc, u).kind = "record"
                           /\ PassesGate(StrategyOutput(k, doc, u).rec)}
Lowest(S) == CHOOSE k \in S : \A j \in S : k <= j

\* C2: the record returned is the output of the lowest-numbered strategy whose
\* output passes the gate, and no later strategy is evaluated.
C2_CascadeDominance ==
    (op = "parse" /\ pc = "done" /\ PassingStrategies(html, url) # {}) =>
        /\ result.by = Lowest(PassingStrategies(html, url))
        /\ result.out = StrategyOutput(result.by, html, url)

\* C2, the stated case: linked data and the regex fallback both pass the gate with
\* different prices, and the linked-data record was returned.
C2_LinkedDataBeatsRegex ==
    /\ op = "parse" /\ pc = "done" /\ url = ZillowUrl
    /\ {1, ZILLOW_STRATEGIES} \subseteq PassingStrategies(html, url)
    /\ ZillowStrategy(1, html, url).rec.listPrice # ZillowStrategy(ZILLOW_STRATEGIES, html, url).rec.listPrice
    /\ result.by = 1 /\ result.out = ZillowStrategy(1, html, url)

\* C3: the parse result is null only if every strategy of the cascade, the regex
\* fallback included, was attempted; a strategy whose field mapping fails counts
\* as no match.
C3_NullOnlyAfterAllStrategies ==
    (op = "parse" /\ pc = "done" /\ result.out = NullResult) =>
        result.by = (IF url = ZillowUrl THEN ZILLOW_STRATEGIES ELSE REDFIN_STRATEGIES)


-----------------------------------------------------------------------------
(* Specification Spec: one call of scrapeProperty, made directly           *)
(* (op = "scrape") or by the POST /api/scrape handler (op = "route").      *)
(* The call is suspended at `await fetch(...)` and `await response.text()`.*)

Thrown(e) == [kind |-> "thrown", error |-> e]
Returned(rec) == [kind |-> "returned", rec |-> rec]
Response(code, errorCode) ==
    [kind |-> "response", status |-> code, success |-> FALSE, errorCode |-> errorCode]
Success(rec) == [kind |-> "response", status |-> 200, success |-> TRUE, data |-> rec]

\* a request's url field that is a string: its text, and the parts it was built from
UrlValue(u) == [t |-> "string", s |-> UrlText(u), u |-> u]

\* a scrapeProperty that issues the request before it classifies the URL
scrapeStart_FetchFirst(u) == [pc |-> "fetching", requests |-> 1, result |-> NoResult]

\* src/src/lib/property-scraper.ts:1378-1396: classify, then issue the request
scrapeStart(u) ==
    IF detectSource(u) = "null"
    THEN [pc |-> "done", requests |-> 0, result |-> Thrown("UNSUPPORTED_SITE")]
    ELSE [pc |-> "fetching", requests |-> 1, result |-> NoResult]

\* how a fetch settles: it rejects, or resolves with a response of some status
Rejected == [kind |-> "rejected"]
Resolved(code) == [kind |-> "response", status |-> code]

\* response.ok
IsOk(code) == code \in 200..299

\* src/src/lib/property-scraper.ts:1386-1402: the fetch settles; a rejection of
\* fetch leaves scrapeProperty as the error fetch raised
scrapeAfterFetch(outcome) ==
    IF outcome = Rejected THEN [pc |-> "done", result |-> Thrown("TypeError: fetch failed")]
    ELSE IF ~IsOk(outcome.status) THEN [pc |-> "done", result |-> Thrown("FETCH_FAILED")]
    ELSE [pc |-> "reading", result |-> NoResult]

\* src/src/lib/property-scraper.ts:1404-1411: the parser of the classified site
parseBySource(doc, u) ==
    IF detectSource(u) = "zillow" THEN parseZillowHtml(doc, u).out
    ELSE IF detectSource(u) = "redfin" THEN parseRedfinHtml(doc, u).out
    ELSE NullResult

\* src/src/lib/property-scraper.ts:1413-1417
scrapeOutcome(data) ==
    IF data = NullResult THEN Thrown("PARSE_FAILED") ELSE Returned(data.rec)

scrapeAfterText(doc, u) == scrapeOutcome(parseBySource(doc, u))

\* src/src/app/api/scrape/route.ts:77-123
routeCatch(errorMessage) ==
    IF errorMessage = "UNSUPPORTED_SITE" THEN Response(400, "UNSUPPORTED_SITE")
    ELSE IF errorMessage = "FETCH_FAILED" THEN Response(502, "FETCH_FAILED")
    ELSE IF errorMessage = "PARSE_FAILED" THEN Response(422, "PARSE_FAILED")
    ELSE Response(500, "PARSE_FAILED")

\* src/src/app/api/scrape/route.ts:16-56: a response, or Pass when scrapeProperty is called
postValidate(b) ==
    IF b.kind = "invalid" \/ IsNullish(b.value) THEN routeCatch("TypeError")
    ELSE LET u == Prop(b.value, "url")
         IN  IF ~Truthy(u) \/ TypeOf(u) # "string" THEN Response(400, "INVALID_URL")
             ELSE IF detectSource(u.u) = "null" THEN Response(400, "UNSUPPORTED_SITE")
             ELSE IF ~IsWellFormedUrl(u.u) THEN Response(400, "INVALID_URL")
             ELSE Pass

\* src/src/app/api/scrape/route.ts:59-75 and the catch: what the handler answers
\* once scrapeProperty has settled
routeSettle(outcome) ==
    IF outcome.kind = "thrown" THEN routeCatch(outcome.error)
    ELSE Success(outcome.rec)

Deliver(outcome) == IF op = "route" THEN routeSettle(outcome) ELSE outcome

S_captcha == <<"c","a","p","t","c","h","a">>
S_blocked == <<"b","l","o","c","k","e","d">>
S_accessdenied == <<"a","c","c","e","s","s"," ","d","e","n","i","e","d">>

ZillowBlockPage ==
    ZillowDoc(<<>>, NoBlocks, [price |-> NoPrice, address |-> [NoAddress EXCEPT ![1] = Str(S_TitleDenied)]])
RedfinBlockPage == RedfinDoc(<<>>, Absent, Absent, [dollar |-> NoMatch, title |-> Str(S_TitleDenied)])

\* the bodies a listing site answers with
ZillowBodies ==
    {ZillowDoc(ld, b, m) : ld \in {<<>>, <<LdListing>>, <<LdEmptyProduct>>},
                           b \in {NoBlocks, [NoBlocks EXCEPT !.inline = P_badType]},
                           m \in ZillowMarkups}
    \cup {ZillowBlockPage}
RedfinBodies ==
    {RedfinDoc(ld, s, Absent, m) : ld \in {<<>>, <<LdResidence>>, <<Arr(<<LdTagList>>)>>},
                                   s \in {Absent, ServerStateBare}, m \in RedfinMarkups}
    \cup {RedfinBlockPage}
Bodies(u) == IF detectSource(u) = "redfin" THEN RedfinBodies ELSE ZillowBodies

OtherUrl == Url(S_https, S_www, S_example, S_home, S_utm)
ReferrerUrl == Url(S_https, <<>>, S_example, S_home, S_refZillow)
BareZillowUrl == Url(<<>>, S_www, ZILLOW_DOMAIN, S_homedetails, <<>>)
NotAUrl == Url(<<>>, <<>>, S_notaurl, <<>>, <<>>)
CallUrls == {ZillowUrl, RedfinUrl, OtherUrl, ReferrerUrl, BareZillowUrl, NotAUrl, EmptyUrl}

Requests ==
    {[kind |-> "invalid"], [kind |-> "json", value |-> Null], [kind |-> "json", value |-> Num(7)],
     [kind |-> "json", value |-> [address |-> Str(S_ElmSt)]],
     [kind |-> "json", value |-> [url |-> Num(42)]]}
    \cup {[kind |-> "json", value |-> [url |-> UrlValue(u)]] : u \in CallUrls}

HttpStatuses == {200, 403, 429, 404, 500}
FetchOutcomes == {Rejected} \cup {Resolved(c) : c \in HttpStatuses}

Init ==
    /\ \/ op = "scrape" /\ url \in CallUrls /\ body = NoBody
       \/ op = "route" /\ url = EmptyUrl /\ body \in Requests
    /\ html = NoHtml
    /\ input = NoInput
    /\ pc = "call"
    /\ requests = 0
    /\ status = Unsettled
    /\ result = NoResult

\* the caller calls scrapeProperty(url)
Scrape ==
    /\ op = "scrape" /\ pc = "call"
    /\ pc' = scrapeStart(url).pc
    /\ requests' = requests + scrapeStart(url).requests
    /\ result' = scrapeStart(url).result
    /\ UNCHANGED <<op, url, body, input, html, status>>

\* POST /api/scrape up to its first answer or to the fetch of scrapeProperty
Post ==
    /\ op = "route" /\ pc = "call"
    /\ IF postValidate(body) = Pass
       THEN /\ url' = body.value.url.u
            /\ pc' = scrapeStart(body.value.url.u).pc
            /\ requests' = requests + scrapeStart(body.value.url.u).requests
            /\ result' = (IF scrapeStart(body.value.url.u).pc = "done"
                          THEN routeSettle(scrapeStart(body.value.url.u).result)
                          ELSE NoResult)
       ELSE /\ result' = postValidate(body)
            /\ pc' = "done"
            /\ UNCHANGED <<url, requests>>
    /\ UNCHANGED <<op, body, input, html, status>>

\* the fetch settles: it rejects, or the site answers with a status
FetchSettles ==
    /\ pc = "fetching"
    /\ \E outcome \in FetchOutcomes :
        /\ (IsWellFormedUrl(url) \/ outcome = Rejected)
        /\ status' = outcome
        /\ pc' = scrapeAfterFetch(outcome).pc
        /\ result' = (IF scrapeAfterFetch(outcome).pc = "done"
                      THEN Deliver(scrapeAfterFetch(outcome).result) ELSE NoResult)
    /\ UNCHANGED <<op, url, body, input, html, requests>>

\* response.text() settles with the body; the document is parsed and the call ends
TextSettles ==
    /\ pc = "reading"
    /\ \E doc \in Bodies(url) :
        /\ html' = doc
        /\ result' = Deliver(scrapeAfterText(doc, url))
    /\ pc' = "done"
    /\ UNCHANGED <<op, url, body, input, requests, status>>

\* response.text() rejects (the connection drops while the body is read)
TextRejects ==
    /\ pc = "reading"
    /\ result' = Deliver(Thrown("TypeError: terminated"))
    /\ pc' = "done"
    /\ UNCHANGED <<op, url, body, input, html, requests, status>>

Next == Scrape \/ Post \/ FetchSettles \/ TextSettles \/ TextRejects

Spec == Init /\ [][Next]_vars

-----------------------------------------------------------------------------
(* What a finished call handed to its caller. *)

\* the record returned to the caller, if any
ReturnedRecord(r) ==
    IF r.kind = "parsed" THEN (IF r.out.kind = "record" THEN {r.out.rec} ELSE {})
    ELSE IF r.kind = "returned" THEN {r.rec}
    ELSE IF r.kind = "response" THEN (IF r.success THEN {r.data} ELSE {})
    ELSE {}

\* the failure reported to the caller, "none" if there is none
Failure(r) ==
    IF r.kind = "thrown" THEN r.error
    ELSE IF r.kind = "response" THEN (IF r.success THEN "none" ELSE r.errorCode)
    ELSE "none"

\* the url argument of the call: of scrapeProperty, or of the request body
RequestedUrl ==
    IF op = "scrape" THEN UrlValue(url)
    ELSE IF op = "route" THEN (IF body.kind = "json" /\ ~IsNullish(body.value)
                               THEN Prop(body.value, "url") ELSE Undefined)
    ELSE Undefined

\* the block-page markers of the specification, searched in the page title
BlockMarkers == {S_captcha, S_blocked, S_accessdenied}
DocTitle(doc) ==
    IF "title" \in DOMAIN doc.markup THEN doc.markup.title ELSE doc.markup.address[1]
IsBlockPage(doc) ==
    /\ doc.kind = "html"
    /\ IsString(DocTitle(doc))
    /\ \E m \in BlockMarkers : includes(toLowerCase(DocTitle(doc).s), m)

\* C1: a record returned by parseZillowHtml, parseRedfinHtml or scrapeProperty
\* never has both an empty or sentinel address and listPrice = 0.
C1_GateOnEveryResult ==
    pc = "done" => \A rec \in ReturnedRecord(result) : PassesGate(rec)

\* C4: scrapeProperty fails only with UNSUPPORTED_SITE, FETCH_FAILED or
\* PARSE_FAILED, and the parsers end with a record or null.
C4_OnlyTaggedFailures ==
    (op = "scrape" /\ pc = "done" /\ result.kind = "thrown") =>
        result.error \in {"UNSUPPORTED_SITE", "FETCH_FAILED", "PARSE_FAILED"}

\* C5: a call whose request was answered with 403 or 429 ends only after the
\* budget of 3 attempts, and then with the Blocked failure.
C5_RetryBudget ==
    (pc = "done" /\ status \in {Resolved(403), Resolved(429)}) =>
        requests = 3 /\ Failure(result) = "BLOCKED"

\* C6: a body with a block-page marker, received with a successful status, is
\* not parsed into a success record.
C6_BlockPageNeverParsed ==
    (pc = "done" /\ html # NoHtml /\ IsBlockPage(html)) => ReturnedRecord(result) = {}

\* C7: for every URL the classifier maps to null, scrapeProperty and the
\* handler end with UNSUPPORTED_SITE, and no request is issued at any point
\* of the call.
C7_UnsupportedNeverFetches ==
    (IsString(RequestedUrl) /\ Truthy(RequestedUrl) /\ detectSource(RequestedUrl.u) = "null") =>
        /\ requests = 0
        /\ pc \in {"call", "done"}
        /\ pc = "done" => Failure(result) = "UNSUPPORTED_SITE"

\* a call with the URL of another site has ended, unsupported and without a request
C7_Witness ==
    /\ pc = "done" /\ op = "route"
    /\ IsString(RequestedUrl) /\ RequestedUrl.u = OtherUrl
    /\ detectSource(OtherUrl) = "null"
    /\ result = Response(400, "UNSUPPORTED_SITE")
    /\ requests = 0

\* C8: a request whose url is missing, not a string or not a well-formed URL is
\* answered INVALID_URL, and no request to a listing site is issued.
C8_MalformedIsInvalidUrl ==
    (/\ op = "route" /\ pc = "done"
     /\ body.kind = "json" /\ ~IsNullish(body.value)
     /\ (~IsString(RequestedUrl) \/ ~IsWellFormedUrl(RequestedUrl.u))) =>
        Failure(result) = "INVALID_URL" /\ requests = 0

\* C10: when the fetch itself fails, or the status is a non-success one other
\* than 403 and 429, the failure reported is FETCH_FAILED after one request.
C10_NetworkFailureIsFetchFailed ==
    (/\ pc = "done"
     /\ \/ status = Rejected
        \/ status.kind = "response" /\ ~IsOk(status.status) /\ status.status \notin {403, 429}) =>
        Failure(result) = "FETCH_FAILED" /\ requests = 1

\* the closed set of failure kinds of the specification, as the program names them
FailureKinds == {"INVALID_URL", "UNSUPPORTED_SITE", "FETCH_FAILED", "BLOCKED", "PARSE_FAILED"}

\* C11: every failure is one kind of the closed set, and PARSE_FAILED is
\* reported only when a document was fetched (and then parsed without a record).
C11_ParseFailedMeansFetched ==
    (pc = "done" /\ Failure(result) # "none") =>
        /\ Failure(result) \in FailureKinds
        /\ Failure(result) = "PARSE_FAILED" => (status = Resolved(200) /\ html # NoHtml)

-----------------------------------------------------------------------------
(* Specification SpecType: normalizePropertyType applied to one raw type. *)

Value(v) == [kind |-> "value", v |-> v]

S_Townhouse == <<"T","o","w","n","h","o","u","s","e">>
S_townhouse == toLowerCase(S_Townhouse)
TypeWords ==
    {<<"S","i","n","g","l","e">>, <<"H","O","U","S","E">>, <<"D","e","t","a","c","h","e","d">>,
     <<"C","o","n","d","o">>, <<"C","O","N","D","O">>, <<"A","p","a","r","t","m","e","n","t">>,
     S_Townhouse, <<"T","o","w","n","h","o","m","e">>, <<"R","o","w">>,
     <<"M","u","l","t","i">>, <<"D","u","p","l","e","x">>, <<"T","r","i","p","l","e","x">>,
     <<"L","o","t">>, <<"F","a","r","m">>}
\* the raw type of a listing: one or two words, or no usable value
TypeStrings == TypeWords \cup {a \o <<" ">> \o b : a, b \in TypeWords}
RawTypes == {Str(s) : s \in TypeStrings} \cup {Undefined, Null, Str(<<>>), Num(7)}

InitType ==
    /\ op = "normalizePropertyType"
    /\ input \in RawTypes
    /\ url = EmptyUrl
    /\ body = NoBody
    /\ html = NoHtml
    /\ pc = "call"
    /\ requests = 0
    /\ status = Unsettled
    /\ result = NoResult

NormalizeType ==
    /\ op = "normalizePropertyType" /\ pc = "call"
    /\ result' = Value(normalizePropertyType(input))
    /\ pc' = "done"
    /\ UNCHANGED <<op, url, body, input, html, requests, status>>

NextType == NormalizeType
SpecType == InitType /\ [][NextType]_vars

\* C12: a type string containing both 'condo' and 'townhouse' classifies as
\* 'condo', and a string that names a townhouse and nothing else classifies as
\* 'townhouse'.
C12_CondoBeforeTownhouse ==
    (op = "normalizePropertyType" /\ pc = "done" /\ IsString(input)) =>
        /\ (includes(toLowerCase(input.s), K_condo) /\ includes(toLowerCase(input.s), S_townhouse))
              => result.v = "condo"
        /\ input.s = S_Townhouse => result.v = "townhouse"

-----------------------------------------------------------------------------
(* Specification SpecPrice: parsePrice applied to one raw price. *)

MaxPriceLen == 3
PriceChars == {"$", ",", ".", "-", " ", "0", "1", "2", "5"}
S_Price1250000 == <<"$","1",",","2","5","0",",","0","0","0">>
PriceStrings == UNION {[1..n -> PriceChars] : n \in 0..MaxPriceLen} \cup {S_Price1250000}
RawPrices ==
    {Str(s) : s \in PriceStrings} \cup {Undefined, Null}
    \cup {Num(n) : n \in {0, 7, 1250000, 0 - 5}}

InitPrice ==
    /\ op = "parsePrice"
    /\ input \in RawPrices
    /\ url = EmptyUrl
    /\ body = NoBody
    /\ html = NoHtml
    /\ pc = "call"
    /\ requests = 0
    /\ status = Unsettled
    /\ result = NoResult

ParsePrice ==
    /\ op = "parsePrice" /\ pc = "call"
    /\ result' = Value(parsePrice(input))
    /\ pc' = "done"
    /\ UNCHANGED <<op, url, body, input, html, requests, status>>

NextPrice == ParsePrice
SpecPrice == InitPrice /\ [][NextPrice]_vars

\* the integer written by the digits of str, 0 when it has none
DigitsValue(str) == LeadingDigitsValue(SelectSeq(str, IsDigit), 0)
\* the part of str before its first decimal point
RECURSIVE BeforeDot(_)
BeforeDot(str) ==
    IF str = <<>> \/ Head(str) = "." THEN <<>> ELSE <<Head(str)>> \o BeforeDot(Tail(str))

-----------------------------------------------------------------------------
\* the linked-data object of the example is the first listing object of the
\* document: the scripts before it are skipped by strategy 1
EmbedsListingFirst ==
    /\ html.kind = "html"
    /\ \E i \in 1..Len(html.ld) :
        IF url = ZillowUrl
        THEN /\ html.ld[i] = LdListing
             /\ \A j \in 1..(i - 1) : html.ld[j] \in {Malformed, Null, LdOrganization}
        ELSE /\ html.ld[i] = Arr(<<LdOrganization, LdListing>>)
             /\ \A j \in 1..(i - 1) : html.ld[j] = Malformed

\* C14: a document embedding the linked-data object with @type
\* SingleFamilyResidence, address {streetAddress '1 Elm St', addressLocality
\* 'Boston'} and offers.price '500000' yields address '1 Elm St, Boston',
\* listPrice 500000 and propertyType 'single-family'; absent address
\* components are left out of the joined address.
C14_LinkedDataEndToEnd ==
    (op = "parse" /\ pc = "done" /\ EmbedsListingFirst) =>
        /\ result.by = 1
        /\ result.out.kind = "record"
        /\ result.out.rec.address = Str(S_ElmBoston)
        /\ result.out.rec.listPrice = 500000
        /\ result.out.rec.propertyType = "single-family"

\* the example object, after a script that is not a listing, was parsed by Site A's parser
C14_Witness ==
    /\ op = "parse" /\ pc = "done" /\ url = ZillowUrl
    /\ html.ld = <<LdOrganization, LdListing>>
    /\ result.out.kind = "record"
    /\ result.out.rec.address = Str(S_ElmBoston)

-----------------------------------------------------------------------------
\* every fetch and parse strategy of the call has failed
AllStrategiesFailed ==
    \/ status = Rejected
    \/ status.kind = "response" /\ ~IsOk(status.status)
    \/ status = Resolved(200) /\ (html = NoHtml \/ parseBySource(html, url) = NullResult)

\* C15: when every fetch and parse strategy fails for a Zillow URL whose path
\* yields an address ('/homedetails/1-Elm-St/12345_zpid/' yields '1 Elm St'),
\* the call returns a record with that address and numeric fields of zero,
\* not a failure.
C15_DegradedSuccess ==
    (op = "scrape" /\ pc = "done" /\ url = ZillowUrl /\ AllStrategiesFailed) =>
        /\ result.kind = "returned"
        /\ result.rec.address = Str(S_ElmSt)
        /\ result.rec.listPrice = 0

-----------------------------------------------------------------------------
(* Specification SpecIdentifier: the identifier extractor of Site A        *)
(* (specification 4.3), applied to one URL.  The patterns are the path     *)
(* segment suffix (digits before "_zpid") and the query parameter (digits  *)
(* after "zpid="), tried in that order.                                    *)

S_zpidSuffix == <<"_","z","p","i","d">>
S_zpidParam == <<"z","p","i","d","=">>

\* str starts with needle at position i
OccursAt(str, needle, i) ==
    /\ i >= 1 /\ i + Len(needle) - 1 <= Len(str)
    /\ \A j \in 1..Len(needle) : str[i + j - 1] = needle[j]

\* the longest run of digits of str that ends at position i
RECURSIVE DigitsEndingAt(_, _)
DigitsEndingAt(str, i) ==
    IF i < 1 \/ ~IsDigit(str[i]) THEN <<>> ELSE DigitsEndingAt(str, i - 1) \o <<str[i]>>

\* the longest run of digits of str that starts at position i
RECURSIVE DigitsStartingAt(_, _)
DigitsStartingAt(str, i) ==
    IF i > Len(str) \/ ~IsDigit(str[i]) THEN <<>> ELSE <<str[i]>> \o DigitsStartingAt(str, i + 1)

\* (\d+)_zpid: the digits before the first "_zpid" that follows a digit
MatchSuffix(str) ==
    LET at == {i \in 2..Len(str) : OccursAt(str, S_zpidSuffix, i) /\ IsDigit(str[i - 1])}
    IN  IF at = {} THEN NoMatch
        ELSE Str(DigitsEndingAt(str, (CHOOSE i \in at : \A j \in at : i <= j) - 1))

\* zpid=(\d+): the digits after the first "zpid=" that a digit follows
MatchParam(str) ==
    LET at == {i \in 1..Len(str) : /\ OccursAt(str, S_zpidParam, i)
                                   /\ i + Len(S_zpidParam) <= Len(str)
                                   /\ IsDigit(str[i + Len(S_zpidParam)])}
    IN  IF at = {} THEN NoMatch
        ELSE Str(DigitsStartingAt(str, (CHOOSE i \in at : \A j \in at : i <= j) + Len(S_zpidParam)))

\* an extractor that prefers the query parameter
extractIdentifier_ParamFirst(u) ==
    IF MatchParam(UrlText(u)) # NoMatch THEN MatchParam(UrlText(u))
    ELSE IF MatchSuffix(UrlText(u)) # NoMatch THEN MatchSuffix(UrlText(u))
    ELSE Null

\* the first pattern that matches, or none
extractIdentifier(u) ==
    IF MatchSuffix(UrlText(u)) # NoMatch THEN MatchSuffix(UrlText(u))
    ELSE IF MatchParam(UrlText(u)) # NoMatch THEN MatchParam(UrlText(u))
    ELSE Null

S_12345 == <<"1","2","3","4","5">>
S_oakDetails == <<"/","h","o","m","e","d","e","t","a","i","l","s","/","2","2","-","O","a","k","-","A","v","e","/","6","7","8","_","z","p","i","d","/">>
S_elmNoId == <<"/","h","o","m","e","d","e","t","a","i","l","s","/","1","-","E","l","m","-","S","t","/">>
S_emptyId == <<"/","h","o","m","e","d","e","t","a","i","l","s","/","_","z","p","i","d","/">>
S_zpid12345 == <<"?","z","p","i","d","=","1","2","3","4","5">>
S_zpid999 == <<"?","x","=","1","&","z","p","i","d","=","9","9","9">>
S_zpidNone == <<"?","z","p","i","d","=">>
PathsWithId == {S_homedetails, S_oakDetails}
PathsWithoutId == {S_elmNoId, S_emptyId, S_home}
QueriesWithId == {S_zpid12345, S_zpid999}
QueriesWithoutId == {<<>>, S_utm, S_zpidNone}
IdentifierUrls ==
    {Url(s, w, ZILLOW_DOMAIN, p, q) : s \in {S_https, S_HTTP}, w \in {<<>>, S_www},
                                      p \in PathsWithId \cup PathsWithoutId,
                                      q \in QueriesWithId \cup QueriesWithoutId}

InitIdentifier ==
    /\ op = "extractIdentifier"
    /\ url \in IdentifierUrls
    /\ body = NoBody
    /\ input = NoInput
    /\ html = NoHtml
    /\ pc = "call"
    /\ requests = 0
    /\ status = Unsettled
    /\ result = NoResult

ExtractIdentifier ==
    /\ op = "extractIdentifier" /\ pc = "call"
    /\ result' = Value(extractIdentifier(url))
    /\ pc' = "done"
    /\ UNCHANGED <<op, url, body, input, html, requests, status>>

NextIdentifier == ExtractIdentifier
SpecIdentifier == InitIdentifier /\ [][NextIdentifier]_vars

-----------------------------------------------------------------------------
(* Specification SpecApi: the API-first strategy of Site A (specification  *)
(* 4.4) in front of the general path.  With an identifier the orchestrator *)
(* queries the data API, then requests the identifier page; a record that  *)
(* passes the gate ends the call, anything else falls through to the fetch *)
(* and cascade of scrapeProperty.                                          *)

\* what the data API, or the identifier page, answers
Unreachable == [kind |-> "unreachable"]
HttpError == [kind |-> "error"]
MalformedPayload == [kind |-> "malformed"]
Payload(property) == [kind |-> "payload", property |-> property]
ApiAnswers == {Unreachable, HttpError, MalformedPayload} \cup {Payload(p) : p \in Props}
NotAsked == [api |-> NoInput, page |-> NoInput]

\* a partial record that passes the gate is completed; any other is dropped
apiGate(partial, u) ==
    IF partial.kind = "record" /\ PassesGate(partial.rec)
    THEN Found(completePropertyData(partial.rec, "zillow", u))
    ELSE Pass

\* a step of the API path that reports an unreachable or failing endpoint
apiStep_Raises(answer, u) ==
    IF answer.kind = "payload" THEN apiGate(Catch(extractPropertyFields(answer.property)), u)
    ELSE IF answer.kind = "malformed" THEN Pass
    ELSE Threw

\* one step of the API path: the answer mapped through the shared field
\* mapping; Found ends the call, Pass goes on
apiStep(answer, u) ==
    IF answer.kind = "payload" THEN apiGate(Catch(extractPropertyFields(answer.property)), u)
    ELSE Pass

UrlWithoutId == Url(S_https, S_www, ZILLOW_DOMAIN, S_elmNoId, <<>>)

InitApi ==
    /\ op = "apiFirst"
    /\ url \in {ZillowUrl, UrlWithoutId}
    /\ body = NoBody
    /\ input = NotAsked
    /\ html = NoHtml
    /\ pc = "call"
    /\ requests = 0
    /\ status = Unsettled
    /\ result = NoResult

\* the call starts: with an identifier the data API is queried, without one the
\* general path starts
ApiStart ==
    /\ op = "apiFirst" /\ pc = "call"
    /\ IF extractIdentifier(url) # Null
       THEN pc' = "api" /\ UNCHANGED <<requests, result>>
       ELSE /\ pc' = scrapeStart(url).pc
            /\ requests' = requests + scrapeStart(url).requests
            /\ result' = scrapeStart(url).result
    /\ UNCHANGED <<op, url, body, input, html, status>>

\* the data API answers
ApiSettles ==
    /\ op = "apiFirst" /\ pc = "api"
    /\ \E answer \in ApiAnswers :
        /\ input' = [input EXCEPT !.api = answer]
        /\ IF apiStep(answer, url).kind = "record"
           THEN pc' = "done" /\ result' = Returned(apiStep(answer, url).rec)
           ELSE IF apiStep(answer, url) = Pass
           THEN pc' = "idpage" /\ UNCHANGED result
           ELSE pc' = "done" /\ result' = Thrown("FETCH_FAILED")
    /\ UNCHANGED <<op, url, body, html, requests, status>>

\* the identifier page answers; without a record the general path starts
PageSettles ==
    /\ op = "apiFirst" /\ pc = "idpage"
    /\ \E answer \in ApiAnswers :
        /\ input' = [input EXCEPT !.page = answer]
        /\ IF apiStep(answer, url).kind = "record"
           THEN pc' = "done" /\ result' = Returned(apiStep(answer, url).rec) /\ UNCHANGED requests
           ELSE IF apiStep(answer, url) = Pass
           THEN /\ pc' = scrapeStart(url).pc
                /\ requests' = requests + scrapeStart(url).requests
                /\ result' = scrapeStart(url).result
           ELSE pc' = "done" /\ result' = Thrown("FETCH_FAILED") /\ UNCHANGED requests
    /\ UNCHANGED <<op, url, body, html, status>>

NextApi == ApiStart \/ ApiSettles \/ PageSettles \/ FetchSettles \/ TextSettles \/ TextRejects
SpecApi == InitApi /\ [][NextApi]_vars

\* C17: whatever the data API and the identifier page answer, the API path
\* raises no failure: a call that ends before the general fetch ends with a
\* record that passes the gate, every failure comes from the general path, and
\* the result of the general path owes nothing to a discarded API partial.
C17_ApiPathNeverFails ==
    op = "apiFirst" =>
        /\ (pc = "done" /\ status = Unsettled) =>
              (result.kind = "returned" /\ PassesGate(result.rec))
        /\ (pc = "done" /\ Failure(result) # "none") => (requests = 1 /\ status # Unsettled)
        /\ (pc = "done" /\ html # NoHtml) => result = scrapeAfterText(html, url)
        /\ (input.page # NoInput /\ apiStep(input.page, url) = Pass) => requests = 1

\* the API errs, the identifier page gives a partial that fails the gate, and
\* the general path then returns a record from the fetched document
C17_Witness ==
    /\ op = "apiFirst" /\ pc = "done"
    /\ input.api = HttpError /\ input.page = Payload(P_none)
    /\ html # NoHtml
    /\ result.kind = "returned"

-----------------------------------------------------------------------------
\* the strategy whose record the parser of the call's site returns
WinningStrategy ==
    IF detectSource(url) = "zillow" THEN parseZillowHtml(html, url).by
    ELSE parseRedfinHtml(html, url).by
\* the strategies whose record is built by completePropertyData
CompletionStrategies == IF detectSource(url) = "zillow" THEN 2..6 ELSE {2}

\* the record scrapeProperty returned carries the URL of the call and its site
StampedForCall ==
    \A rec \in ReturnedRecord(result) :
        rec.sourceUrl = url /\ rec.source = detectSource(url)

\* C18 as stated: every returned record has sourceUrl = u and source =
\* detectSource(u), and it was stamped by the record-completion step, never
\* by an individual strategy.
C18_StampedOnlyByCompletion ==
    (op = "scrape" /\ pc = "done" /\ result.kind = "returned") =>
        StampedForCall /\ WinningStrategy \in CompletionStrategies

\* C18, amended: every record returned by scrapeProperty for URL u has
\* sourceUrl = u and source = detectSource(u), whichever strategy produced it,
\* be it stamped by the completion step or by the strategy's own record literal.
C18_ResultStamping ==
    (op = "scrape" /\ pc = "done" /\ result.kind = "returned") => StampedForCall

\* a Site B record built by the linked-data strategy itself was returned
C18_Witness ==
    /\ op = "scrape" /\ pc = "done" /\ url = RedfinUrl
    /\ result.kind = "returned"
    /\ WinningStrategy = 1
    /\ result.rec.source = "redfin" /\ result.rec.sourceUrl = RedfinUrl

-----------------------------------------------------------------------------
(* The game-theory engine (src/src/lib/game-theory-engine.ts).  The engine  *)
(* computes in floating point; here an amount of money is an integer number *)
(* of thousandths of a dollar, a proportion taken from a slider is in       *)
(* hundredths, and every product is cut to a thousandth of a dollar.  The   *)
(* amounts the engine returns are rounded to whole dollars (Math.round).    *)

Abs(x) == IF x < 0 THEN 0 - x ELSE x
Max(a, b) == IF a >= b THEN a ELSE b
Min(a, b) == IF a <= b THEN a ELSE b

\* x * num / den for num >= 0, den > 0, cut toward zero, without forming x * num
MulDiv(x, num, den) ==
    LET q == (Abs(x) \div den) * num + ((Abs(x) % den) * num) \div den
    IN  IF x < 0 THEN 0 - q ELSE q

\* Math.round of an amount: the nearest whole dollar, halves up
RoundToDollars(x) == (x + 500) \div 1000

\* the integer square root of x, found between lo and hi
RECURSIVE ISqrt(_, _, _)
ISqrt(x, lo, hi) ==
    IF lo >= hi THEN lo
    ELSE LET mid == (lo + hi + 1) \div 2
         IN  IF mid * mid <= x THEN ISqrt(x, mid, hi) ELSE ISqrt(x, lo, mid - 1)

\* Math.sqrt((n - 1) / 2) in ten-thousandths
SqrtHalf(n) == ISqrt((n - 1) * 50000000, 0, 40000)

\* game-theory-engine.ts:85-94
calculateWinnersCurseAdjustment(numBidders, sigma) ==
    IF numBidders <= 1 THEN 0
    ELSE MulDiv(MulDiv(sigma, 85, 100), SqrtHalf(Max(2, numBidders)), 10000)

\* game-theory-engine.ts:126-141
deriveValuationFromComps(lowComp, highComp, desireLevel) ==
    LET midComp == (lowComp + highComp) \div 2
    IN  IF desireLevel >= 5
        THEN midComp + MulDiv(highComp - midComp, desireLevel - 5, 5)
        ELSE midComp - MulDiv(midComp - lowComp, 5 - desireLevel, 5)

\* game-theory-engine.ts:152-154
calculateCompsSigma(lowComp, highComp) == MulDiv(highComp - lowComp, 100, 256)

\* game-theory-engine.ts:176-186; lossAversion in tenths
calculateBehavioralAdjustment(desireLevel, lossAversion, adjustedValue) ==
    LET weight == 25 * Abs(desireLevel - 5) * (lossAversion - 10)
        delta == IF desireLevel >= 5 THEN MulDiv(adjustedValue, weight, 10000)
                 ELSE 0 - MulDiv(adjustedValue, weight, 10000)
        maxAdjustment == MulDiv(adjustedValue, 10, 100)
    IN  Max(0 - maxAdjustment, Min(maxAdjustment, delta))

\* game-theory-engine.ts:213-219, in thousandths; financingStrength in hundredths
getEffectiveBidders(numBidders, financingStrength) ==
    Max(2000, 1000 * numBidders + 250 - (15 * financingStrength) \div 2)

\* game-theory-engine.ts:236-246; numBidders and riskParam in thousandths
fpsbaEquilibriumBid(valuation, numBidders, lowComp, riskParam) ==
    LET n == Max(2000, numBidders)
        alpha == Max(100, Min(1000, riskParam))
    IN  MulDiv(valuation, n - 1000, n - 1000 + alpha) + MulDiv(lowComp, alpha, n - 1000 + alpha)

\* the default of the lossAversion parameter, 2.0, in tenths (line 329)
DefaultLossAversion == 20

\* v_raw (lines 335-344), in thousandths of a dollar
RawValuation(compsBasedValue, estimatedValue) ==
    IF estimatedValue > MulDiv(compsBasedValue, 105, 100)
    THEN MulDiv(compsBasedValue, 70, 100) + MulDiv(estimatedValue, 30, 100)
    ELSE Max(compsBasedValue, MulDiv(estimatedValue, 95, 100))

\* v_raw * domFactor * reductionFactor (lines 350-355)
SignalAdjusted(v_raw, daysOnMarket, priceReduced) ==
    LET afterDom == IF 2 * daysOnMarket >= 365 THEN MulDiv(v_raw, 95, 100)
                    ELSE MulDiv(v_raw, 3650 - daysOnMarket, 3650)
    IN  IF priceReduced THEN MulDiv(afterDom, 97, 100) ELSE afterDom

\* v_eff (lines 366-374), in thousandths of a dollar
EffectiveValuation(params) ==
    LET lowComp == 1000 * params.lowComp
        highComp == 1000 * params.highComp
        compsBasedValue == deriveValuationFromComps(lowComp, highComp, params.desireLevel)
        v_raw == RawValuation(compsBasedValue, 1000 * params.estimatedValue)
        signalAdjustedValue == SignalAdjusted(v_raw, params.daysOnMarket, params.priceReduced)
        sigma == calculateCompsSigma(lowComp, highComp)
        winnersCurseAdjustment == calculateWinnersCurseAdjustment(params.numBidders, sigma)
        v_adj == Max(lowComp, signalAdjustedValue - winnersCurseAdjustment)
    IN  v_adj + calculateBehavioralAdjustment(params.desireLevel, DefaultLossAversion, v_adj)

\* optimalBid before rounding (lines 361, 379-391), in thousandths of a dollar
HeatedBid(params, v_eff) ==
    LET alpha == 300 + 7 * params.riskTolerance
        effectiveN == getEffectiveBidders(params.numBidders, params.financingStrength)
        bid == fpsbaEquilibriumBid(v_eff, effectiveN, 1000 * params.lowComp, alpha)
    IN  MulDiv(bid, 10000 + 6 * (params.marketHeat - 50), 10000)

\* the amounts of the result (lines 413-445), in dollars
BidResult(optimalBid, highComp, v_eff) ==
    [optimalBid      |-> RoundToDollars(optimalBid),
     conservativeBid |-> RoundToDollars(MulDiv(optimalBid, 95, 100)),
     aggressiveBid   |-> RoundToDollars(Min(MulDiv(optimalBid, 108, 100),
                                            MulDiv(highComp, 102, 100))),
     adjustedValue   |-> RoundToDollars(v_eff)]

BidFrom(params, v_eff) == BidResult(HeatedBid(params, v_eff), 1000 * params.highComp, v_eff)

\* game-theory-engine.ts:315-446
calculateOptimalBid(params) == BidFrom(params, EffectiveValuation(params))

\* game-theory-engine.ts:461-483, in dollars; an effectiveValuation of 0 is falsy
optimizeEscalation(optimalBid, maxBudget, numBidders, effectiveValuation) ==
    LET valuationCap == IF effectiveValuation # 0 THEN effectiveValuation ELSE maxBudget
        increment == ((optimalBid * 15 + 500000) \div 1000000) * 1000
    IN  [startingBid |-> optimalBid,
         increment   |-> Max(5000, Min(10000, increment)),
         cap         |-> Min(maxBudget, (valuationCap * 102 + 50) \div 100)]

\* BidCalculator.tsx:48-72: the parameters handed to the engine
EngineParams(formData) ==
    [estimatedValue |-> formData.estimatedValue, lowComp |-> formData.compsLow,
     highComp |-> formData.compsHigh, numBidders |-> formData.numBidders,
     daysOnMarket |-> formData.daysOnMarket, marketHeat |-> formData.marketHeat,
     riskTolerance |-> formData.riskTolerance,
     financingStrength |-> formData.financingStrength,
     desireLevel |-> formData.desireLevel, priceReduced |-> formData.priceReduced]

WithEscalation(formData, bidResult) ==
    [kind |-> "results",
     optimalBid |-> bidResult.optimalBid,
     conservativeBid |-> bidResult.conservativeBid,
     aggressiveBid |-> bidResult.aggressiveBid,
     adjustedValue |-> bidResult.adjustedValue,
     escalation |-> optimizeEscalation(bidResult.optimalBid, formData.maxBudget,
                                       formData.numBidders, bidResult.adjustedValue)]

\* BidCalculator.tsx:48-72
calculateResults(formData) == WithEscalation(formData, calculateOptimalBid(EngineParams(formData)))

\* src/unnamed/part_001:192, with the sliders in hundredths
DEFAULT_FORM_DATA ==
    [estimatedValue |-> 760000, compsLow |-> 720000, compsHigh |-> 790000,
     numBidders |-> 3, daysOnMarket |-> 14, marketHeat |-> 60, riskTolerance |-> 50,
     financingStrength |-> 80, desireLevel |-> 7, priceReduced |-> FALSE,
     maxBudget |-> 800000]

\* form states: the defaults with the fields of the wizard's steps changed
FormStates ==
    { [DEFAULT_FORM_DATA EXCEPT !.estimatedValue = e, !.compsHigh = h, !.numBidders = n,
                                !.daysOnMarket = dom, !.marketHeat = heat,
                                !.riskTolerance = risk, !.financingStrength = f,
                                !.desireLevel = d, !.priceReduced = pr, !.maxBudget = b] :
        e \in {700000, 760000, 850000}, h \in {790000, 900000}, n \in {1, 3, 15},
        dom \in {0, 14, 200}, heat \in {0, 60, 100}, risk \in {0, 50, 100},
        f \in {30, 80, 100}, d \in {1, 7, 10}, pr \in BOOLEAN,
        b \in {0, 750000, 800000, 1000000} }

InitBid ==
    /\ op = "calculateResults"
    /\ input \in FormStates
    /\ url = EmptyUrl
    /\ body = NoBody
    /\ html = NoHtml
    /\ pc = "start"
    /\ requests = 0
    /\ status = Unsettled
    /\ result = NoResult

\* handleNext on step 3 (BidCalculator.tsx:77-82) runs calculateResults
Calculate ==
    /\ op = "calculateResults"
    /\ pc = "start"
    /\ result' = calculateResults(input)
    /\ pc' = "done"
    /\ UNCHANGED <<op, url, body, input, html, requests, status>>

NextBid == Calculate

SpecBid == InitBid /\ [][NextBid]_vars

\* C19: whatever the form holds, none of the recommended amounts (the three
\* bids, the escalation clause's starting bid and its cap) is above maxBudget.
C19_BudgetCap ==
    (op = "calculateResults" /\ pc = "done") =>
        /\ result.conservativeBid <= input.maxBudget
        /\ result.optimalBid <= input.maxBudget
        /\ result.aggressiveBid <= input.maxBudget
        /\ result.escalation.startingBid <= input.maxBudget
        /\ result.escalation.cap <= input.maxBudget

-----------------------------------------------------------------------------
(* Specification SpecFallback: parseZillowFromHtml, the last strategy of    *)
(* Site A, applied to one page.  The page is given by what each pattern of  *)
(* each field's list captures (match[1]) or NoMatch.  The captures drawn    *)
(* for bathrooms are whole numbers, on which parseFloat and parseInt agree. *)

\* src/src/lib/property-scraper.ts:1087-1099; matches[i] is match[1] of bedsPatterns[i]
RECURSIVE BedsLoop(_, _)
BedsLoop(matches, beds) ==
    IF matches = <<>> THEN beds
    ELSE IF Head(matches) = NoMatch THEN BedsLoop(Tail(matches), beds)
    ELSE IF parseInt(Head(matches).s) > 0 /\ parseInt(Head(matches).s) < 20
         THEN parseInt(Head(matches).s)
         ELSE BedsLoop(Tail(matches), parseInt(Head(matches).s))

\* src/src/lib/property-scraper.ts:1102-1114; matches[i] is match[1] of bathsPatterns[i]
RECURSIVE BathsLoop(_, _)
BathsLoop(matches, baths) ==
    IF matches = <<>> THEN baths
    ELSE IF Head(matches) = NoMatch THEN BathsLoop(Tail(matches), baths)
    ELSE IF parseInt(Head(matches).s) > 0 /\ parseInt(Head(matches).s) < 20
         THEN parseInt(Head(matches).s)
         ELSE BathsLoop(Tail(matches), parseInt(Head(matches).s))

NotComma(c) == c # ","
\* parseInt(match[1].replace(/,/g, '')), line 1142
SqftValue(capture) == parseInt(SelectSeq(capture.s, NotComma))

\* src/src/lib/property-scraper.ts:1133-1145; matches[i] is match[1] of sqftPatterns[i]
RECURSIVE SqftLoop(_, _)
SqftLoop(matches, sqft) ==
    IF matches = <<>> THEN sqft
    ELSE IF Head(matches) = NoMatch THEN SqftLoop(Tail(matches), sqft)
    ELSE IF SqftValue(Head(matches)) > 100 THEN Num(SqftValue(Head(matches)))
         ELSE SqftLoop(Tail(matches), Num(SqftValue(Head(matches))))

\* what parseZillowFromHtml returns (lines 1147-1167): null, or the record with
\* its bedrooms, bathrooms and squareFeet
FallbackResult(outcome, markup) ==
    IF outcome = NullResult THEN outcome
    ELSE [kind |-> "record", rec |-> outcome.rec,
          bedrooms |-> BedsLoop(markup.beds, 0),
          bathrooms |-> BathsLoop(markup.baths, 0),
          squareFeet |-> SqftLoop(markup.sqft, Undefined)]

S_Count3 == <<"3">>
S_Count25 == <<"2","5">>
S_Count0 == <<"0">>
S_Sqft1850 == <<"1",",","8","5","0">>
S_Sqft50 == <<"5","0">>
NoCount == <<NoMatch, NoMatch, NoMatch>>

\* prices: those of ZillowPriceMatches, and pages where only a count matches
FallbackPriceMatches ==
    ZillowPriceMatches \cup {[NoPrice EXCEPT ![1] = Str(S_Price9500)],
                             [NoPrice EXCEPT ![3] = Str(S_Count3), ![5] = Str(S_Price9500)]}
FallbackBedsMatches == [1..3 -> {NoMatch, Str(S_Count3), Str(S_Count25)}]
FallbackBathsMatches ==
    {NoCount, [NoCount EXCEPT ![1] = Str(S_Count3)],
     [NoCount EXCEPT ![1] = Str(S_Count0), ![2] = Str(S_Count3)],
     [NoCount EXCEPT ![2] = Str(S_Count0)]}
FallbackSqftMatches ==
    {NoCount, [NoCount EXCEPT ![2] = Str(S_Sqft1850)],
     [NoCount EXCEPT ![1] = Str(S_Sqft50), ![3] = Str(S_Sqft1850)],
     [NoCount EXCEPT ![1] = Str(S_Sqft50)]}
FallbackMarkups ==
    {[price |-> p, address |-> a, beds |-> b, baths |-> ba, sqft |-> s] :
        p \in FallbackPriceMatches, a \in ZillowAddressMatches, b \in FallbackBedsMatches,
        ba \in FallbackBathsMatches, s \in FallbackSqftMatches}

InitFallback ==
    /\ op = "parseZillowFromHtml"
    /\ input \in FallbackMarkups
    /\ url = ZillowUrl
    /\ body = NoBody
    /\ html = NoHtml
    /\ pc = "call"
    /\ requests = 0
    /\ status = Unsettled
    /\ result = NoResult

ParseFromHtml ==
    /\ op = "parseZillowFromHtml" /\ pc = "call"
    /\ result' = FallbackResult(parseZillowFromHtml(input, url), input)
    /\ pc' = "done"
    /\ UNCHANGED <<op, url, body, input, html, requests, status>>

NextFallback == ParseFromHtml
SpecFallback == InitFallback /\ [][NextFallback]_vars

\* the captures of a field's patterns whose value passes the plausibility check
PlausiblePrices(matches) ==
    {i \in 1..Len(matches) : matches[i] # NoMatch /\ parsePrice(matches[i]) > 10000}
PlausibleCounts(matches) ==
    {i \in 1..Len(matches) : /\ matches[i] # NoMatch
                             /\ parseInt(matches[i].s) > 0 /\ parseInt(matches[i].s) < 20}
PlausibleSqft(matches) ==
    {i \in 1..Len(matches) : matches[i] # NoMatch /\ SqftValue(matches[i]) > 100}
First(S) == CHOOSE i \in S : \A j \in S : i <= j

\* C20: in the regex fallback each of price, bedrooms, bathrooms and square
\* footage is the value of the first pattern of its list whose value passes
\* the plausibility check, and stays at its zero/absent default when no
\* pattern's value passes; the record is returned whenever the address or a
\* plausible price was found.
C20_FirstPlausibleOrDefault ==
    (op = "parseZillowFromHtml" /\ pc = "done") =>
        /\ (PlausiblePrices(input.price) # {} \/ AddressLoop(input.address) # <<>>)
              => result.kind = "record"
        /\ result.kind = "record" =>
              /\ result.rec.listPrice =
                    IF PlausiblePrices(input.price) = {} THEN 0
                    ELSE parsePrice(input.price[First(PlausiblePrices(input.price))])
              /\ result.bedrooms =
                    IF PlausibleCounts(input.beds) = {} THEN 0
                    ELSE parseInt(input.beds[First(PlausibleCounts(input.beds))].s)
              /\ result.bathrooms =
                    IF PlausibleCounts(input.baths) = {} THEN 0
                    ELSE parseInt(input.baths[First(PlausibleCounts(input.baths))].s)
              /\ result.squareFeet =
                    IF PlausibleSqft(input.sqft) = {} THEN Undefined
                    ELSE Num(SqftValue(input.sqft[First(PlausibleSqft(input.sqft))]))

-----------------------------------------------------------------------------
(* Specification SpecFields: the numeric fields of the record a client-     *)
(* state strategy of Site A returns for one located property object         *)
(* (extractPropertyFields, then completePropertyData).  A number that is    *)
(* not an integer is kept as its whole part with its decimal digits.        *)

NotANumber == [t |-> "nan"]
Decimal(whole, frac) == [t |-> "number", n |-> whole, frac |-> frac]

IsNumberChar(c) == IsDigit(c) \/ c = "."
RECURSIVE TakeWhileNumberChar(_)
TakeWhileNumberChar(str) ==
    IF str = <<>> \/ ~IsNumberChar(Head(str)) THEN <<>>
    ELSE <<Head(str)>> \o TakeWhileNumberChar(Tail(str))
\* match[0] of /[\d.]+/, or <<>> when there is no match
RECURSIVE FirstNumberRun(_)
FirstNumberRun(str) ==
    IF str = <<>> THEN <<>>
    ELSE IF IsNumberChar(Head(str)) THEN TakeWhileNumberChar(str)
    ELSE FirstNumberRun(Tail(str))

RECURSIVE TakeDigits(_)
TakeDigits(str) ==
    IF str = <<>> \/ ~IsDigit(Head(str)) THEN <<>>
    ELSE <<Head(str)>> \o TakeDigits(Tail(str))
RECURSIVE DropTrailingZeros(_)
DropTrailingZeros(str) ==
    IF str # <<>> /\ str[Len(str)] = "0" THEN DropTrailingZeros(SubSeq(str, 1, Len(str) - 1))
    ELSE str

\* parseFloat of a run of digits and points
parseFloat(run) ==
    LET whole == TakeDigits(run)
        rest == SubSeq(run, Len(whole) + 1, Len(run))
        frac == IF rest # <<>> /\ Head(rest) = "." THEN TakeDigits(Tail(rest)) ELSE <<>>
    IN  IF whole = <<>> /\ frac = <<>> THEN NotANumber
        ELSE IF DropTrailingZeros(frac) = <<>> THEN Num(LeadingDigitsValue(whole, 0))
        ELSE Decimal(LeadingDigitsValue(whole, 0), DropTrailingZeros(frac))

\* src/src/lib/property-scraper.ts:639-643
extractNumber(str) ==
    IF ~Truthy(str) THEN Num(0)
    ELSE IF FirstNumberRun(JsString(str)) = <<>> THEN Num(0)
    ELSE parseFloat(FirstNumberRun(JsString(str)))

\* the numeric fields of extractPropertyFields' literal (lines 1014-1024)
extractPropertyNumbers(property) ==
    [daysOnMarket |-> extractNumber(Or(Or(Prop(property, "daysOnZillow"), Prop(property, "timeOnZillow")),
                                       Prop(property, "dom"))),
     bedrooms |-> extractNumber(Or(Prop(property, "bedrooms"), Prop(property, "beds"))),
     bathrooms |-> extractNumber(Or(Prop(property, "bathrooms"), Prop(property, "baths"))),
     squareFeet |-> extractNumber(Or(Or(Prop(property, "livingArea"), Prop(property, "livingAreaValue")),
                                     Prop(property, "sqft"))),
     yearBuilt |-> extractNumber(Prop(property, "yearBuilt"))]

\* the numeric fields of completePropertyData's literal (lines 656-664), with
\* the record of the fields followed elsewhere
completeNumbers(partial, rec) ==
    [kind |-> "record", rec |-> rec,
     listPrice |-> Num(rec.listPrice),
     daysOnMarket |-> Or(partial.daysOnMarket, Num(0)),
     bedrooms |-> Or(partial.bedrooms, Num(0)),
     bathrooms |-> Or(partial.bathrooms, Num(0)),
     squareFeet |-> partial.squareFeet,
     yearBuilt |-> partial.yearBuilt]

\* lines 707-712 and alike: the strategy returns the completed record when
\* the located data has an address or a price
FieldsOutcome(partial, property, u) ==
    IF partial.kind = "record" /\ hasRequiredData(partial.rec)
    THEN completeNumbers(extractPropertyNumbers(property),
                         completePropertyData(partial.rec, "zillow", u))
    ELSE NullResult

S_1850 == <<"1","8","5","0">>
S_1850sqft == <<"1",",","8","5","0"," ","s","q","f","t">>
S_2point5 == <<"2",".","5">>
S_dots == <<".",".">>
S_na == <<"n","/","a">>

\* what a payload may hold under a numeric key
RawNumbers ==
    {Undefined, Num(0), Num(3), Num(-3), Str(S_1850), Str(S_1850sqft), Str(S_2point5),
     Str(S_dots), Str(S_na)}
RawListPrices == {Undefined, Num(725000), Num(-5), Str(S_Price725)}

FieldsProperty(price, dom, beds, area, year) ==
    Map(<<Entry("streetAddress", Str(S_ElmSt)), Entry("price", price),
          Entry("daysOnZillow", dom), Entry("bedrooms", beds),
          Entry("livingArea", area), Entry("yearBuilt", year)>>)
FieldsProperties ==
    {FieldsProperty(price, dom, beds, area, year) :
        price \in RawListPrices, dom \in {Undefined, Num(14), Str(S_2point5)},
        beds \in RawNumbers, area \in RawNumbers,
        year \in {Undefined, Num(1987), Str(S_na)}}

InitFields ==
    /\ op = "extractPropertyFields"
    /\ input \in FieldsProperties
    /\ url = ZillowUrl
    /\ body = NoBody
    /\ html = NoHtml
    /\ pc = "call"
    /\ requests = 0
    /\ status = Unsettled
    /\ result = NoResult

ExtractFields ==
    /\ op = "extractPropertyFields" /\ pc = "call"
    /\ result' = FieldsOutcome(extractPropertyFields(input), input, url)
    /\ pc' = "done"
    /\ UNCHANGED <<op, url, body, input, html, requests, status>>

NextFields == ExtractFields
SpecFields == InitFields /\ [][NextFields]_vars

IsInteger(x) == x.t = "number" /\ "frac" \notin DOMAIN x
NonNegative(x) == x.t = "number" /\ x.n >= 0
PositiveInteger(x) == IsInteger(x) /\ x.n > 0

\* C21: in a returned record listPrice and daysOnMarket are non-negative
\* integers, bedrooms and bathrooms are non-negative numbers, and squareFeet
\* and yearBuilt are each absent or a positive integer.
C21_FieldRanges ==
    (op = "extractPropertyFields" /\ pc = "done" /\ result.kind = "record") =>
        /\ NonNegative(result.listPrice) /\ IsInteger(result.listPrice)
        /\ NonNegative(result.daysOnMarket) /\ IsInteger(result.daysOnMarket)
        /\ NonNegative(result.bedrooms)
        /\ NonNegative(result.bathrooms)
        /\ result.squareFeet = Undefined \/ PositiveInteger(result.squareFeet)
        /\ result.yearBuilt = Undefined \/ PositiveInteger(result.yearBuilt)

-----------------------------------------------------------------------------
(* Specification SpecReduced: the priceReduced field each strategy writes   *)
(* for one located data object and one page text.                           *)

Bool(b) == [t |-> "boolean", b |-> b]

\* Array.isArray(priceHistory) && priceHistory.length > 1
HasPriceReduction(property) ==
    /\ Prop(property, "priceHistory").t = "array"
    /\ Len(Prop(property, "priceHistory").items) > 1

K_priceCut == <<"p","r","i","c","e"," ","c","u","t">>
K_priceDrop == <<"p","r","i","c","e"," ","d","r","o","p">>
K_reduced == <<"r","e","d","u","c","e","d">>
K_priceReduced == <<"p","r","i","c","e"," ","r","e","d","u","c","e","d">>

DataStrategies ==
    {"parseZillowJsonLd", "extractZillowFromNextData", "extractZillowFromApollo",
     "extractPropertyFields", "parseZillowInlineData", "parseRedfinJsonLd",
     "extractRedfinFromServerState", "parseRedfinInlineData"}
PartialStrategies ==
    {"extractZillowFromNextData", "extractZillowFromApollo", "extractPropertyFields",
     "extractRedfinFromServerState"}
RegexStrategies == {"parseZillowFromHtml", "parseRedfinFromHtml"}
RedfinStrategies ==
    {"parseRedfinJsonLd", "extractRedfinFromServerState", "parseRedfinInlineData",
     "parseRedfinFromHtml"}

\* the priceReduced expression of each strategy's literal
\* (property-scraper.ts:816, 849, 873, 1023, 1039, 1160, 1258, 1300, 1319, 1361)
StrategyPriceReduced(strategy, data, text) ==
    CASE strategy = "parseZillowJsonLd" -> FALSE
      [] strategy = "extractZillowFromNextData" -> HasPriceReduction(data)
      [] strategy = "extractZillowFromApollo" -> FALSE
      [] strategy = "extractPropertyFields" -> HasPriceReduction(data)
      [] strategy = "parseZillowInlineData" -> FALSE
      [] strategy = "parseZillowFromHtml" ->
            \/ includes(toLowerCase(text), K_priceCut)
            \/ includes(toLowerCase(text), K_reduced)
            \/ includes(toLowerCase(text), K_priceDrop)
      [] strategy = "parseRedfinJsonLd" -> FALSE
      [] strategy = "extractRedfinFromServerState" ->
            Truthy(Or(Prop(data, "priceDropInfo"), Prop(data, "isPriceDrop")))
      [] strategy = "parseRedfinInlineData" -> Truthy(Prop(data, "priceDropInfo"))
      [] strategy = "parseRedfinFromHtml" ->
            \/ includes(toLowerCase(text), K_priceDrop)
            \/ includes(toLowerCase(text), K_reduced)

\* the field of the returned record: a partial goes through
\* completePropertyData's partial.priceReduced || false (line 662)
priceReducedOf(strategy, data, text) ==
    IF strategy \in PartialStrategies
    THEN Truthy(Or(Bool(StrategyPriceReduced(strategy, data, text)), Bool(FALSE)))
    ELSE StrategyPriceReduced(strategy, data, text)

S_PriceCut5k == <<"P","r","i","c","e"," ","c","u","t",":"," ","$","5","k">>
S_PriceDrop == <<"P","r","i","c","e"," ","D","r","o","p">>
S_PriceReduced == <<"P","r","i","c","e"," ","r","e","d","u","c","e","d">>
S_ReducedFees == <<"R","e","d","u","c","e","d"," ","H","O","A"," ","f","e","e","s">>
S_ForSale == <<"F","o","r"," ","s","a","l","e">>
PageTexts == {<<>>, S_ForSale, S_PriceCut5k, S_PriceDrop, S_PriceReduced, S_ReducedFees}

HistoryEntry(price) == Map(<<Entry("price", Num(price))>>)
PriceHistories ==
    {Undefined, Arr(<<>>), Arr(<<HistoryEntry(725000)>>),
     Arr(<<HistoryEntry(725000), HistoryEntry(750000)>>)}
ReducedData ==
    {Map(<<Entry("streetAddress", Str(S_ElmSt)), Entry("priceHistory", h),
           Entry("priceDropInfo", i), Entry("isPriceDrop", f)>>) :
        h \in PriceHistories, i \in {Undefined, EmptyObject}, f \in {Undefined, Bool(TRUE), Bool(FALSE)}}

InitReduced ==
    /\ op \in DataStrategies \cup RegexStrategies
    /\ input \in {[data |-> dt, text |-> tx] : dt \in ReducedData, tx \in PageTexts}
    /\ url = EmptyUrl
    /\ body = NoBody
    /\ html = NoHtml
    /\ pc = "call"
    /\ requests = 0
    /\ status = Unsettled
    /\ result = NoResult

InferReduction ==
    /\ op \in DataStrategies \cup RegexStrategies /\ pc = "call"
    /\ result' = Value(priceReducedOf(op, input.data, input.text))
    /\ pc' = "done"
    /\ UNCHANGED <<op, url, body, input, html, requests, status>>

NextReduced == InferReduction
SpecReduced == InitReduced /\ [][NextReduced]_vars

\* the signals of the rule: a price history of more than one entry, the
\* site's price-drop flag or object, and for the regex strategies a phrase
HistorySignal(data) == HasPriceReduction(data)
FlagSignal(data) == Truthy(Prop(data, "priceDropInfo")) \/ Truthy(Prop(data, "isPriceDrop"))
PhraseSignal(text) ==
    \/ includes(toLowerCase(text), K_priceCut)
    \/ includes(toLowerCase(text), K_priceDrop)
    \/ includes(toLowerCase(text), K_priceReduced)

\* C22: whatever strategy produced the record, priceReduced is true exactly
\* when the located data has a price history of more than one entry or the
\* site's price-drop flag or object, or, for the regex strategies, the markup
\* holds a 'price cut', 'price drop' or 'price reduced' phrase.
C22_PriceReductionInference ==
    (op \in DataStrategies \cup RegexStrategies /\ pc = "done") =>
        (result.v <=>
            IF op \in RegexStrategies THEN PhraseSignal(input.text)
            ELSE \/ HistorySignal(input.data)
                 \/ (op \in RedfinStrategies /\ FlagSignal(input.data)))

-----------------------------------------------------------------------------
(* Specification SpecPair: two scrapeProperty calls in flight at once.  Each *)
(* variable of a call is a pair indexed by the call; the steps of the two   *)
(* calls interleave in every order, and input keeps the order of the steps. *)

Calls == {1, 2}

\* a url parameter that is the url of the call whose step ran last
CallUrl_Shared(i) == IF input = <<>> THEN url[i] ELSE url[input[Len(input)]]

\* the url parameter of call i (property-scraper.ts:1378): local to the call
CallUrl(i) == url[i]

PairUrls == {ZillowUrl, RedfinUrl, OtherUrl}
PairBodies(u) ==
    IF detectSource(u) = "redfin"
    THEN {RedfinDoc(<<LdResidence>>, Absent, Absent, [dollar |-> NoMatch, title |-> NoMatch]),
          RedfinDoc(<<>>, Absent, Absent, [dollar |-> NoMatch, title |-> NoMatch])}
    ELSE {ZillowDoc(<<LdListing>>, NoBlocks, [price |-> NoPrice, address |-> NoAddress]),
          ZillowDoc(<<>>, NoBlocks, [price |-> NoPrice, address |-> NoAddress])}
PairOutcomes == {Rejected, Resolved(200), Resolved(403)}

InitPair ==
    /\ op = "pair"
    /\ url \in [Calls -> PairUrls]
    /\ body = NoBody
    /\ input = <<>>
    /\ html = [i \in Calls |-> NoHtml]
    /\ pc = [i \in Calls |-> "call"]
    /\ requests = 0
    /\ status = [i \in Calls |-> Unsettled]
    /\ result = [i \in Calls |-> NoResult]

\* call i enters scrapeProperty
PairScrape(i) ==
    /\ op = "pair" /\ pc[i] = "call"
    /\ pc' = [pc EXCEPT ![i] = scrapeStart(CallUrl(i)).pc]
    /\ requests' = requests + scrapeStart(CallUrl(i)).requests
    /\ result' = [result EXCEPT ![i] = scrapeStart(CallUrl(i)).result]
    /\ input' = Append(input, i)
    /\ UNCHANGED <<op, url, body, html, status>>

\* the fetch of call i settles
PairFetchSettles(i) ==
    /\ op = "pair" /\ pc[i] = "fetching"
    /\ \E outcome \in PairOutcomes :
        /\ status' = [status EXCEPT ![i] = outcome]
        /\ pc' = [pc EXCEPT ![i] = scrapeAfterFetch(outcome).pc]
        /\ result' = [result EXCEPT ![i] = scrapeAfterFetch(outcome).result]
    /\ input' = Append(input, i)
    /\ UNCHANGED <<op, url, body, html, requests>>

\* the body of call i arrives and is parsed
PairTextSettles(i) ==
    /\ op = "pair" /\ pc[i] = "reading"
    /\ \E doc \in PairBodies(url[i]) :
        /\ html' = [html EXCEPT ![i] = doc]
        /\ result' = [result EXCEPT ![i] = scrapeAfterText(doc, CallUrl(i))]
    /\ pc' = [pc EXCEPT ![i] = "done"]
    /\ input' = Append(input, i)
    /\ UNCHANGED <<op, url, body, requests, status>>

NextPair == \E i \in Calls : PairScrape(i) \/ PairFetchSettles(i) \/ PairTextSettles(i)

SpecPair == InitPair /\ [][NextPair]_vars

\* the result of scrapeProperty(u) run alone, when its fetch settles with
\* outcome and its body is doc
Alone(u, outcome, doc) ==
    IF scrapeStart(u).pc = "done" THEN scrapeStart(u).result
    ELSE IF outcome = Unsettled THEN NoResult
    ELSE IF scrapeAfterFetch(outcome).pc = "done" THEN scrapeAfterFetch(outcome).result
    ELSE IF doc = NoHtml THEN NoResult
    ELSE scrapeAfterText(doc, u)

-----------------------------------------------------------------------------
(* Specification SpecSearch: findProperty, the nested search of Site B's    *)
(* server-state payload, applied to one payload.                            *)

MaxNest == 4

PropertyKeys == {"propertyId", "listingId", "streetAddress"}

\* a payload with node at depth d below the root; each level holds a leaf
\* and, before or after the way down, a branch
RECURSIVE Nest(_, _, _, _)
Nest(d, node, branch, branchFirst) ==
    IF d = 0 THEN node
    ELSE IF branchFirst
    THEN Map(<<Entry("version", Num(3)), Entry("aside", branch),
               Entry("payload", Nest(d - 1, node, branch, branchFirst))>>)
    ELSE Map(<<Entry("version", Num(3)),
               Entry("payload", Nest(d - 1, node, branch, branchFirst)),
               Entry("aside", branch)>>)

SearchNodes ==
    {Map(<<Entry(k, Num(77)), Entry("price", Num(500000))>>) : k \in PropertyKeys}
    \cup {Map(<<Entry("page", Num(1))>>)}
Aside == Map(<<Entry("listingId", Num(9))>>)
SearchBranches ==
    {Map(<<Entry("page", Num(2))>>), Arr(<<Num(1), Aside>>), Map(<<Entry("meta", Aside)>>)}
SearchPayloads ==
    {Nest(d, node, branch, first) : d \in 0..MaxNest, node \in SearchNodes,
                                    branch \in SearchBranches, first \in BOOLEAN}

InitSearch ==
    /\ op = "findProperty"
    /\ input \in SearchPayloads
    /\ url = EmptyUrl
    /\ body = NoBody
    /\ html = NoHtml
    /\ pc = "call"
    /\ requests = 0
    /\ status = Unsettled
    /\ result = NoResult

Search ==
    /\ op = "findProperty" /\ pc = "call"
    /\ result' = Value(findProperty(input))
    /\ pc' = "done"
    /\ UNCHANGED <<op, url, body, input, html, requests, status>>

NextSearch == Search
SpecSearch == InitSearch /\ [][NextSearch]_vars

\* the objects of a payload in traversal order, each with its depth
RECURSIVE Preorder(_, _)
RECURSIVE PreorderAll(_, _)
PreorderAll(values, depth) ==
    IF values = <<>> THEN <<>>
    ELSE (IF IsObject(Head(values)) THEN Preorder(Head(values), depth) ELSE <<>>)
         \o PreorderAll(Tail(values), depth)
Preorder(obj, depth) == <<[node |-> obj, depth |-> depth]>> \o PreorderAll(Values(obj), depth + 1)

PropertyShaped(visit) == \E k \in PropertyKeys : Truthy(Prop(visit.node, k))
ShapedWithin(payload, limit) ==
    SelectSeq(Preorder(payload, 0), LAMBDA visit : PropertyShaped(visit) /\ visit.depth <= limit)

\* the search with the depth limit the rule asks for
BoundedSearch(payload, limit) ==
    IF ShapedWithin(payload, limit) = <<>> THEN Null ELSE Head(ShapedWithin(payload, limit)).node

\* C24: the nested search has a depth limit: it returns the first node in
\* traversal order, no deeper than the limit, that has propertyId, listingId
\* or streetAddress, and null when there is none within the limit.
C24_BoundedNestedSearch ==
    (op = "findProperty" /\ pc = "done") =>
        \E limit \in 0..(MaxNest - 1) :
            \A payload \in SearchPayloads : findProperty(payload) = BoundedSearch(payload, limit)

-----------------------------------------------------------------------------
(* Specification SpecAutoFill: applyScrapedData (PropertyDetails.tsx), the  *)
(* step that writes a scraped record into the form.  input holds the form   *)
(* before the step and the record; result is the form after it.             *)

\* updateField(field, value): setFormData(prev => ({...prev, [field]: value}))
updateField(form, field, value) == [form EXCEPT ![field] = value]

\* lines 73-74
ApplyAddressAndPrice(form, data) ==
    LET f1 == IF Truthy(data.address) THEN updateField(form, "address", data.address) ELSE form
    IN  IF Truthy(data.listPrice) THEN updateField(f1, "listPrice", data.listPrice) ELSE f1

\* lines 75-79
ApplyMarketFields(form, data) ==
    LET f1 == IF Truthy(data.daysOnMarket)
              THEN updateField(form, "daysOnMarket", data.daysOnMarket) ELSE form
        f2 == IF data.propertyType # "other"
              THEN updateField(f1, "propertyType", data.propertyType) ELSE f1
    IN  updateField(f2, "priceReduced", data.priceReduced)

\* lines 82-87
ApplyEstimate(form, data) ==
    IF Truthy(data.estimatedValue) THEN updateField(form, "estimatedValue", data.estimatedValue)
    ELSE IF Truthy(data.listPrice) THEN updateField(form, "estimatedValue", data.listPrice)
    ELSE form

\* an auto-fill that copies the record's price whatever it is
applyScrapedData_CopyPrice(form, data) ==
    ApplyEstimate(ApplyMarketFields(updateField(ApplyAddressAndPrice(form, data),
                                                "listPrice", data.listPrice), data), data)

\* src/src/components/forms/PropertyDetails.tsx:72-88
applyScrapedData(form, data) ==
    ApplyEstimate(ApplyMarketFields(ApplyAddressAndPrice(form, data), data), data)

S_MainSt == <<"9"," ","M","a","i","n"," ","S","t">>
\* the form as the wizard starts it (src/unnamed/part_001:192), and after manual entry
FilledForms ==
    {[address |-> Str(<<>>), listPrice |-> Num(750000), daysOnMarket |-> Num(14),
      propertyType |-> "single-family", priceReduced |-> FALSE,
      estimatedValue |-> Num(760000), maxBudget |-> Num(800000)],
     [address |-> Str(S_MainSt), listPrice |-> Num(610000), daysOnMarket |-> Num(30),
      propertyType |-> "townhouse", priceReduced |-> TRUE,
      estimatedValue |-> Num(600000), maxBudget |-> Num(650000)]}

\* the records the scrape route can answer with
ScrapedRecords ==
    {[address |-> a, listPrice |-> Num(p), daysOnMarket |-> Num(dom), propertyType |-> ty,
      priceReduced |-> pr, estimatedValue |-> ev] :
        a \in {Str(S_ElmSt), Str(S_AddressFromUrl), Str(S_UnknownAddress), Str(<<>>)},
        p \in {0, 725000}, dom \in {0, 21}, ty \in {"other", "condo"}, pr \in BOOLEAN,
        ev \in {Undefined, Num(0), Num(740000)}}

InitAutoFill ==
    /\ op = "applyScrapedData"
    /\ input \in {[form |-> f, data |-> dt] : f \in FilledForms, dt \in ScrapedRecords}
    /\ url = EmptyUrl
    /\ body = NoBody
    /\ html = NoHtml
    /\ pc = "call"
    /\ requests = 0
    /\ status = Unsettled
    /\ result = NoResult

ApplyScraped ==
    /\ op = "applyScrapedData" /\ pc = "call"
    /\ result' = applyScrapedData(input.form, input.data)
    /\ pc' = "done"
    /\ UNCHANGED <<op, url, body, input, html, requests, status>>

NextAutoFill == ApplyScraped
SpecAutoFill == InitAutoFill /\ [][NextAutoFill]_vars

\* a record with nothing but an address: no price, no days, no type, no estimate
AllZeroRecord(data) ==
    /\ data.listPrice = Num(0) /\ data.daysOnMarket = Num(0)
    /\ data.propertyType = "other" /\ ~Truthy(data.estimatedValue)

\* C25: applying a scraped record changes address, listPrice, daysOnMarket and
\* propertyType only where the record has a usable value (a non-empty
\* address, a non-zero price, non-zero days, a type other than 'other'); for
\* an all-zero record nothing but address and priceReduced changes.
C25_AutoFillKeepsUnknown ==
    (op = "applyScrapedData" /\ pc = "done") =>
        /\ result.address # input.form.address => Truthy(input.data.address)
        /\ result.listPrice # input.form.listPrice => input.data.listPrice # Num(0)
        /\ result.daysOnMarket # input.form.daysOnMarket => input.data.daysOnMarket # Num(0)
        /\ result.propertyType # input.form.propertyType => input.data.propertyType # "other"
        /\ AllZeroRecord(input.data) =>
              /\ [result EXCEPT !.address = input.form.address,
                                 !.priceReduced = input.form.priceReduced] = input.form
              /\ result.priceReduced = input.data.priceReduced
              /\ Truthy(input.data.address) => result.address = input.data.address

\* an all-zero record applied to a form that held other values
C25_Witness ==
    /\ op = "applyScrapedData" /\ pc = "done"
    /\ AllZeroRecord(input.data)
    /\ input.form.listPrice = Num(610000)
    /\ result.address = Str(S_AddressFromUrl)
    /\ result.priceReduced # input.form.priceReduced
    /\ result.listPrice = Num(610000)

-----------------------------------------------------------------------------
(* Claims about the engine's results, under SpecBid. *)

\* C26: the escalation clause has cap = min(maxBudget, effective valuation),
\* an increment from 5000 to 10000, and a starting bid no higher than the cap.
C26_EscalationBounds ==
    (op = "calculateResults" /\ pc = "done") =>
        /\ result.escalation.cap = Min(input.maxBudget, result.adjustedValue)
        /\ result.escalation.increment >= 5000 /\ result.escalation.increment <= 10000
        /\ result.escalation.startingBid <= result.escalation.cap

\* C27: the three recommendations are ordered conservativeBid <= optimalBid
\* <= aggressiveBid, the conservative one 5% below the optimal one and the
\* aggressive one at most 8% above it (each to the dollar they are rounded to).
C27_RecommendationOrder ==
    (op = "calculateResults" /\ pc = "done") =>
        /\ result.conservativeBid <= result.optimalBid
        /\ result.optimalBid <= result.aggressiveBid
        /\ Abs(100 * result.conservativeBid - 95 * result.optimalBid) <= 100
        /\ 100 * result.aggressiveBid <= 108 * result.optimalBid + 100

-----------------------------------------------------------------------------
(* Specification SpecWizard: the four-step wizard of BidCalculator.  pc is  *)
(* the component's step, input its formData and result its results (null is *)
(* NoResult); op names the handler that ran last, and status keeps the form *)
(* data that the last calculateResults read.                                *)

TOTAL_STEPS == 4

\* a step indicator that moves to whatever step is clicked
onStepClick_Any(step, s) == s

\* StepIndicator's isClickable (src/unnamed/part_002:137) and the handler
\* (s) => s < step && setStep(s) (BidCalculator.tsx:119)
onStepClick(step, s) == IF s < TOTAL_STEPS /\ s < step THEN s ELSE step

InitWizard ==
    /\ op = "mount"
    /\ pc = 1
    /\ input = DEFAULT_FORM_DATA
    /\ result = NoResult
    /\ status = Unsettled
    /\ url = EmptyUrl
    /\ body = NoBody
    /\ html = NoHtml
    /\ requests = 0

\* BidCalculator.tsx:77-82; the button is rendered while step < 4 (lines 151-157)
HandleNext ==
    /\ pc \in 1..4 /\ pc < TOTAL_STEPS
    /\ op' = "handleNext"
    /\ IF pc = 3
       THEN result' = calculateResults(input) /\ status' = input
       ELSE UNCHANGED <<result, status>>
    /\ pc' = Min(pc + 1, TOTAL_STEPS)
    /\ UNCHANGED <<url, body, input, html, requests>>

\* BidCalculator.tsx:87-89; the button is rendered while step > 1 (lines 142-149)
HandleBack ==
    /\ pc \in 1..4 /\ pc > 1
    /\ op' = "handleBack"
    /\ pc' = Max(pc - 1, 1)
    /\ UNCHANGED <<url, body, input, html, requests, status, result>>

\* a click on circle s of the step indicator
StepClick ==
    /\ pc \in 1..4
    /\ \E s \in 1..TOTAL_STEPS : pc' = onStepClick(pc, s)
    /\ op' = "onStepClick"
    /\ UNCHANGED <<url, body, input, html, requests, status, result>>

\* BidCalculator.tsx:94-98; the button is rendered on step 4 (lines 158-164)
HandleStartOver ==
    /\ pc = TOTAL_STEPS
    /\ op' = "handleStartOver"
    /\ pc' = 1
    /\ input' = DEFAULT_FORM_DATA
    /\ result' = NoResult
    /\ UNCHANGED <<url, body, html, requests, status>>

\* updateField from the form of the step shown (lines 126-134)
EditField ==
    /\ pc \in 1..3
    /\ op' = "updateField"
    /\ \/ pc = 1 /\ \E v \in {0, 14} : input' = updateField(input, "daysOnMarket", v)
       \/ pc = 2 /\ \E v \in {1, 3} : input' = updateField(input, "numBidders", v)
       \/ pc = 3 /\ \E v \in {750000, 800000} : input' = updateField(input, "maxBudget", v)
    /\ UNCHANGED <<url, body, html, pc, requests, status, result>>

\* an auto-fill request started on step 1 settles, on whatever step the
\* wizard is by then, and writes the scraped price as the estimated value
AutoFillArrives ==
    /\ pc \in 1..4
    /\ op' = "applyScrapedData"
    /\ \E v \in {725000, 760000} : input' = updateField(input, "estimatedValue", v)
    /\ UNCHANGED <<url, body, html, pc, requests, status, result>>

NextWizard ==
    HandleNext \/ HandleBack \/ StepClick \/ HandleStartOver \/ EditField \/ AutoFillArrives

SpecWizard == InitWizard /\ [][NextWizard]_vars

WizardStep ==
    /\ pc' \in 1..4
    /\ op' = "onStepClick" => (pc' = pc \/ pc' < pc)
    /\ (pc' = 4 /\ pc # 4) => (pc = 3 /\ op' = "handleNext")
    /\ pc' = 4 => (result' # NoResult /\ result' = calculateResults(status'))
    /\ (pc' = 4 /\ pc # 4) => status' = input
    /\ op' = "handleStartOver" =>
          (pc' = 1 /\ input' = DEFAULT_FORM_DATA /\ result' = NoResult)

\* C28: in every step of the wizard the step stays in 1..4, the step
\* indicator moves only to a strictly earlier step, step 4 is entered only by
\* Next from step 3, on step 4 the results are non-null and are those
\* computed from the form data of that last transition, and Start Over gives
\* step 1, the default form data and null results.
C28_WizardStepMachine == [][WizardStep]_vars

\* step 4 reached a second time, after Back and a changed budget
C28_Witness ==
    /\ op = "handleNext" /\ pc = 4
    /\ input.maxBudget = 750000
    /\ result = calculateResults(input)

-----------------------------------------------------------------------------
(* The response of POST /api/scrape, under Spec. *)

\* C29: every response of the handler is either a success with a record and
\* status 200, or a failure whose status follows its error code:
\* UNSUPPORTED_SITE and INVALID_URL 400, FETCH_FAILED 502, PARSE_FAILED 422.
C29_ResponseShape ==
    (op = "route" /\ pc = "done") =>
        /\ result.kind = "response"
        /\ result.success => (result.status = 200 /\ "data" \in DOMAIN result)
        /\ ~result.success =>
              \/ result.errorCode \in {"UNSUPPORTED_SITE", "INVALID_URL"} /\ result.status = 400
              \/ result.errorCode = "FETCH_FAILED" /\ result.status = 502
              \/ result.errorCode = "PARSE_FAILED" /\ result.status = 422

-----------------------------------------------------------------------------
(* Specification SpecRequest: the auto-fill request of PropertyDetails.      *)
(* input is the state of the mounted component (listingUrl, isLoading,       *)
(* scrapeError, scrapeSuccess), pc tells whether the component is mounted    *)
(* (the wizard shows it on step 1 only), requests counts the requests in     *)
(* flight, and status tells how many of them, and how many success timers,   *)
(* belong to the mounted component; op names the event that ran last.        *)

MaxInFlight == 2

NoError == [t |-> "null"]
S_url == <<"u">>
S_scrapeFailed == <<"f","a","i","l","e","d">>

\* PropertyDetails.tsx:27-30: the state of a newly mounted component
FreshComponent ==
    [listingUrl |-> <<>>, isLoading |-> FALSE, scrapeError |-> NoError, scrapeSuccess |-> FALSE]

\* disabled={isLoading || !listingUrl.trim()} (line 130)
ButtonEnabled(c) == ~c.isLoading /\ trim(c.listingUrl) # <<>>

\* handleAutoFill up to its fetch (lines 41-43); the blank-URL return of
\* lines 36-39 cannot be reached through the disabled button
AutoFillStarted(c) ==
    [c EXCEPT !.isLoading = TRUE, !.scrapeError = NoError, !.scrapeSuccess = FALSE]

\* handleAutoFill after its awaits (lines 52-66): a success response, an
\* error response, or an exception of fetch or response.json()
AutoFillSettled(c, outcome) ==
    IF outcome = "success" THEN [c EXCEPT !.scrapeSuccess = TRUE, !.isLoading = FALSE]
    ELSE [c EXCEPT !.scrapeError = Str(S_scrapeFailed), !.isLoading = FALSE]

RequestOutcomes == {"success", "error", "exception"}

InitRequest ==
    /\ op = "mount"
    /\ pc = "mounted"
    /\ input = FreshComponent
    /\ requests = 0
    /\ status = [own |-> 0, timers |-> 0]
    /\ url = EmptyUrl
    /\ body = NoBody
    /\ html = NoHtml
    /\ result = NoResult

\* onChange of the URL field (lines 121-124)
TypeUrl ==
    /\ pc = "mounted"
    /\ op' = "onChange"
    /\ \E text \in {<<>>, S_url} :
          input' = [input EXCEPT !.listingUrl = text, !.scrapeError = NoError]
    /\ UNCHANGED <<url, body, html, pc, requests, status, result>>

\* a click on the Auto-fill button
ClickAutoFill ==
    /\ pc = "mounted" /\ ButtonEnabled(input)
    /\ requests < MaxInFlight
    /\ op' = "handleAutoFill"
    /\ input' = AutoFillStarted(input)
    /\ requests' = requests + 1
    /\ status' = [status EXCEPT !.own = status.own + 1]
    /\ UNCHANGED <<url, body, html, pc, result>>

\* a request of the mounted component settles
OwnSettles ==
    /\ pc = "mounted" /\ status.own > 0
    /\ op' = "settled"
    /\ \E outcome \in RequestOutcomes :
        /\ input' = AutoFillSettled(input, outcome)
        /\ status' = [own |-> status.own - 1,
                      timers |-> IF outcome = "success" /\ status.timers < MaxInFlight
                                 THEN status.timers + 1 ELSE status.timers]
    /\ requests' = requests - 1
    /\ UNCHANGED <<url, body, html, pc, result>>

\* a request of a component that is no longer mounted settles: its state
\* updates are dropped
StaleSettles ==
    /\ requests > (IF pc = "mounted" THEN status.own ELSE 0)
    /\ op' = "settledStale"
    /\ requests' = requests - 1
    /\ UNCHANGED <<url, body, input, html, pc, status, result>>

\* setTimeout(() => setScrapeSuccess(false), 5000) fires (line 57)
TimerFires ==
    /\ pc = "mounted" /\ status.timers > 0
    /\ op' = "timeout"
    /\ input' = [input EXCEPT !.scrapeSuccess = FALSE]
    /\ status' = [status EXCEPT !.timers = status.timers - 1]
    /\ UNCHANGED <<url, body, html, pc, requests, result>>

\* the wizard leaves step 1: {step === 1 && <PropertyDetails/>} (BidCalculator.tsx:126)
Unmount ==
    /\ pc = "mounted"
    /\ op' = "unmount"
    /\ pc' = "unmounted"
    /\ input' = NoInput
    /\ status' = [own |-> 0, timers |-> 0]
    /\ UNCHANGED <<url, body, html, requests, result>>

\* the wizard comes back to step 1: a new component with new state
Mount ==
    /\ pc = "unmounted"
    /\ op' = "mount"
    /\ pc' = "mounted"
    /\ input' = FreshComponent
    /\ UNCHANGED <<url, body, html, requests, status, result>>

NextRequest ==
    TypeUrl \/ ClickAutoFill \/ OwnSettles \/ StaleSettles \/ TimerFires \/ Unmount \/ Mount

SpecRequest == InitRequest /\ [][NextRequest]_vars

\* C30: while the auto-fill section is shown, the loading flag is true
\* exactly while a request is in flight, no second request is in flight
\* beside it, and the error message and the success banner are not both shown.
C30_AutoFillLifecycle ==
    (op \in {"mount", "onChange", "handleAutoFill", "settled", "settledStale", "timeout"}
     /\ pc = "mounted") =>
        /\ input.isLoading <=> requests > 0
        /\ requests <= 1
        /\ ~(input.scrapeError # NoError /\ input.scrapeSuccess)

====
